---- MODULE Spec2Model ----
(***************************************************************************)
(* Controller mode of true-shuffle: the run store, the session registry,   *)
(* the command handlers (start / next / stop), the reconciliation (poll)   *)
(* task of app/controller.py, and the per-user request lock of             *)
(* app/spotify_client.py.                                                  *)
(*                                                                         *)
(* Scheduling is asyncio's: one coroutine runs at a time and control       *)
(* changes hands only at an await.  One action of the controller model is  *)
(* therefore the code a coroutine runs from one resumption to its next     *)
(* suspension on a remote call (sp_get / sp_put / sp_post), on a sleep or  *)
(* on the commit of the buffer fill.  The value a remote call yields is    *)
(* the input of the action that resumes after it.                          *)
(***************************************************************************)
EXTENDS Integers, Sequences, FiniteSets, TLC

\* ---------------------------------------------------------------- bounds
PlaylistLen == 3        \* number of tracks the playlist fetch returns
MaxCmds == 2            \* number of commands issued to one process
MaxSessions == 2        \* number of sessions created in one process
MaxPolls == 2           \* number of poll iterations begun over a behaviour
MaxDraws == 1           \* number of draw sequences the shuffle is run with
MaxRestarts == 1        \* number of process restarts over a behaviour
MaxItems == 3           \* length of a track list given to the shuffle
MaxN == 4               \* length of a list of distinct items that is shuffled
MaxIds == 2             \* distinct ids a URI of one prefix can carry
MaxExtras == 1          \* members added before and after an uploaded document
MaxCursor == 2          \* largest cursor of an exported run

\* ------------------------------------------------------ program constants
queue_buffer_size == 5  \* Settings.queue_buffer_size
MaxSkipOffset == 5      \* last offset scanned by range(2, 6)

NumUsers == 2           \* users whose calls go through the client
NumCallers == 2         \* concurrent callers of SpotifyClient._request

\* SpotifyClient.MAX_RETRIES
MAX_RETRIES == 3
\* shuffle_with_guard(similarity_window=10, max_retries=5)
similarity_window == 10
max_retries == 5

VARIABLES runs, sessions, registry, co, npolls, restarts, locks, calls, tokens,
          items, previous_order, rnd, stage, kept, shuffled,
          exported, raw_json, payload, xstage,
          player

ctlvars == <<runs, sessions, registry, co, npolls, restarts>>
lockvars == <<locks, calls, tokens>>
shufflevars == <<items, previous_order, rnd, stage, kept, shuffled>>
exportvars == <<exported, raw_json, payload, xstage>>
devicevars == <<player>>
vars == <<runs, sessions, registry, co, npolls, restarts, locks, calls, tokens,
          items, previous_order, rnd, stage, kept, shuffled,
          exported, raw_json, payload, xstage,
          player>>

Min(a, b) == IF a < b THEN a ELSE b
Max(a, b) == IF a > b THEN a ELSE b

\* Track URIs are 1..PlaylistLen; 0 is a URI that is in no order.
PlaylistTracks == [k \in 1..PlaylistLen |-> k]
Uris == 0..PlaylistLen

\* --------------------------------------------------------------- shuffle
\* _shuffle_order: Fisher-Yates from i = n-1 down to 1 with the draws j in
\* [0, i], then dedup keeping the first occurrence.  draws[i] is the draw
\* made for the 0-based position i.
Swap(seq, a, b) == [seq EXCEPT ![a] = seq[b], ![b] = seq[a]]

RECURSIVE FisherYates(_, _, _)
FisherYates(seq, draws, i) ==
    IF i < 1 THEN seq
    ELSE FisherYates(Swap(seq, i + 1, draws[i] + 1), draws, i - 1)

RECURSIVE Dedup(_, _)
Dedup(seq, acc) ==
    IF seq = <<>> THEN acc
    ELSE IF \E k \in 1..Len(acc) : acc[k] = Head(seq)
         THEN Dedup(Tail(seq), acc)
         ELSE Dedup(Tail(seq), Append(acc, Head(seq)))

\* The shuffle without its dedup pass.
_shuffle_order_nodedup(uris, draws) == FisherYates(uris, draws, Len(uris) - 1)

_shuffle_order(uris, draws) == Dedup(FisherYates(uris, draws, Len(uris) - 1), <<>>)

\* Draw sequences with every draw taken from the whole list, 0..n-1.
DrawSeqs_whole(n) == [1..(n - 1) -> 0..(n - 1)]

\* All draw sequences random.randint(0, i) can produce for a list of n items.
DrawSeqs(n) == {d \in [1..(n - 1) -> 0..(n - 1)] : \A i \in 1..(n - 1) : d[i] <= i}

\* The draw sequences are numbered in the factorial number system; the
\* controller model shuffles with the first MaxDraws of them.
RECURSIVE Factorial(_)
Factorial(n) == IF n <= 1 THEN 1 ELSE n * Factorial(n - 1)

RECURSIVE DrawRank(_, _)
DrawRank(d, i) == IF i < 1 THEN 0 ELSE d[i] * Factorial(i) + DrawRank(d, i - 1)

ControllerDraws == {d \in DrawSeqs(PlaylistLen) : DrawRank(d, PlaylistLen - 1) < MaxDraws}

\* ------------------------------------------------------------ coroutines
CmdIds == 1..MaxCmds
TaskIds == (MaxCmds + 1)..(2 * MaxCmds)
CoIds == CmdIds \cup TaskIds

\* A coroutine slot.  kind/pc/s/i/endi/ret are the coroutine's position and
\* locals; playuri and playdev are the uris[0] and the device_id of the body
\* of its play call (0: the body has no device_id); the remaining fields
\* record what the coroutine has done so far (calls issued, what the
\* current poll iteration observed, the range of its buffer fill).
NoCo == [kind |-> "none", pc |-> "idle", nextpc |-> "idle", s |-> 0, i |-> 0,
         endi |-> 0, ret |-> "none", res |-> "none",
         nplay |-> 0, nenq |-> 0, nfill |-> 0, nlaunch |-> 0, playuri |-> 0,
         playok |-> FALSE,
         pre_live |-> FALSE, pre_norun |-> FALSE, pre_conc |-> FALSE,
         overlap |-> FALSE,
         uri |-> 0, c0 |-> 0, row |-> 0, old |-> 0, st0 |-> "idle", itkind |-> "none",
         endstate |-> "idle", endcursor |-> 0,
         first |-> 0, q0 |-> 0, fcur |-> 0, playdev |-> 0]

\* ControllerSession.__init__
ControllerSession(run_id, order, cursor, queued_until_index) ==
    [run_id |-> run_id, order |-> order, cursor |-> cursor,
     queued_until_index |-> queued_until_index, state |-> "idle",
     device_id |-> 0, error_message |-> FALSE, poll_task |-> 0,
     started |-> FALSE, queued |-> {}, full |-> 0]

OrderAt(sess, k) == sess.order[k + 1]

\* None, where a URI is expected; no track of an order has this value.
Null == 0

\* ControllerSession.to_status_dict (the display fields are left out).
to_status_dict(sess) ==
    [state |-> sess.state, cursor |-> sess.cursor, total_tracks |-> Len(sess.order),
     current_track_uri |-> IF sess.cursor < Len(sess.order) THEN OrderAt(sess, sess.cursor)
                           ELSE Null,
     error_message |-> sess.error_message, device_id |-> sess.device_id]

\* The SELECT of create_or_resume_run: the active controller run with the
\* highest id, 0 when there is none.
ActiveRuns(rs) == {r \in 1..Len(rs) : rs[r].status = "active"}
find_active_controller(rs) ==
    IF ActiveRuns(rs) = {} THEN 0
    ELSE CHOOSE r \in ActiveRuns(rs) : \A r2 \in ActiveRuns(rs) : r2 <= r

\* An INSERT or UPDATE that would leave two rows of the key with the same
\* status, with all constraints off.
UniqueViolated_off(rs, status, self) == FALSE

\* UNIQUE(user_id, playlist_id, mode, status): a write that gives a row the
\* status another row of the key (other than the row written, self) already
\* has is refused with IntegrityError.
UniqueViolated(rs, status, self) ==
    \E r \in 1..Len(rs) : r # self /\ rs[r].status = status

\* _persist_cursor: UPDATE runs SET cursor, queued_until_index WHERE id.
_persist_cursor(rs, sess) ==
    [rs EXCEPT ![sess.run_id].cursor = sess.cursor,
               ![sess.run_id].queued_until_index = sess.queued_until_index]

\* A task is done() once its coroutine has returned or was cancelled.
TaskDone(cs, t) == cs[t].pc = "done" \/ (cs[t].pc = "iter_end" /\ cs[t].nextpc = "done")

\* poll_task is set and not done().
TaskAlive(sess) == sess.poll_task # 0 /\ ~TaskDone(co, sess.poll_task)

\* Task.cancel(): the task is suspended at an await; the request is recorded
\* and CancelledError is raised there when the task is next run.  Until then
\* the task is not done().
Cancelled(rec) == [NoCo EXCEPT !.kind = "poll", !.s = rec.s, !.pc = "cancelling"]

FreeTask == CHOOSE t \in TaskIds : co[t].kind = "none" /\ \A t2 \in TaskIds : co[t2].kind = "none" => t <= t2

\* _start_polling on a coroutine table cs: cancel the live task, create one.
_start_polling(cs, sess, s) ==
    LET cancelled == IF sess.poll_task # 0 /\ ~TaskDone(cs, sess.poll_task)
                     THEN [cs EXCEPT ![sess.poll_task] = Cancelled(@)]
                     ELSE cs
    IN [cancelled EXCEPT ![FreeTask] = [NoCo EXCEPT !.kind = "poll", !.pc = "loop", !.s = s]]

\* ------------------------------------------------- per-user request lock
Users == 1..NumUsers
Callers == 1..NumCallers

\* _locks is empty at import; a caller has not called yet.
NoLock == [exists |-> FALSE, locked |-> FALSE, waiters |-> <<>>, woken |-> {}]
NoCall == [user |-> 0, use_lock |-> FALSE, pc |-> "idle", attempt |-> 0, res |-> "none",
           nhttp |-> 0, last |-> 0, n429 |-> 0, n401 |-> 0, fresh |-> FALSE]

InitCtl ==
    /\ runs = <<>>
    /\ sessions = <<>>
    /\ registry = 0
    /\ co = [id \in CoIds |-> NoCo]
    /\ npolls = 0
    /\ restarts = 0

InitLock ==
    /\ locks = [u \in Users |-> NoLock]
    /\ calls = [r \in Callers |-> NoCall]
    /\ tokens = [u \in Users |-> "valid"]

\* A JSON value: a string, a number, a list of strings or another object.
JStr(x) == [t |-> "str", s |-> x, n |-> 0, l |-> <<>>]
JInt(x) == [t |-> "int", s |-> "", n |-> x, l |-> <<>>]
JList(x) == [t |-> "list", s |-> "", n |-> 0, l |-> x]
JObj == [t |-> "obj", s |-> "", n |-> 0, l |-> <<>>]

\* No run is being exported or imported.
NoRun == [playlist_id |-> "", mode |-> "", shuffled_order |-> <<>>, cursor |-> 0,
          status |-> ""]
NoPayload == [res |-> "none", fields |-> [k \in {"exported_at"} |-> JStr("")]]
NoExport ==
    /\ exported = NoRun
    /\ raw_json = [valid |-> TRUE, object |-> TRUE, members |-> <<>>]
    /\ payload = NoPayload
    /\ xstage = "none"

\* No shuffle is being computed.
NoShuffle ==
    /\ items = <<>>
    /\ previous_order = [given |-> FALSE, seq |-> <<>>]
    /\ rnd = <<>>
    /\ stage = "none"
    /\ kept = <<>>
    /\ shuffled = <<>>

\* The player is not observed.
NoPlayer == player = 0

Init == InitCtl /\ InitLock /\ NoShuffle /\ NoExport /\ NoPlayer

NextFreeCmd(c) == co[c].kind = "none" /\ \A c2 \in CmdIds : c2 < c => co[c2].kind # "none"

InFlight(c) == co[c].kind # "none" /\ co[c].pc \notin {"returned", "done"}

\* Another command is being handled.
Busy == \E c \in CmdIds : InFlight(c)

\* The coroutine table once a further command has arrived: the commands
\* being handled overlap with it.
Arrived == [id \in CoIds |-> IF id \in CmdIds /\ InFlight(id)
                             THEN [co[id] EXCEPT !.overlap = TRUE] ELSE co[id]]

\* The route handler returns (res = "ok": the status snapshot) or raises.
Return(rec, res) == [rec EXCEPT !.pc = "returned", !.res = res]

\* How a coroutine ends or goes on when the code it runs raises: a poll task
\* is caught by _poll_loop, a command's exception leaves the route handler.
Raised(rec, sess, what) ==
    IF rec.kind = "poll"
    THEN IF what = "premium"
         THEN [rec EXCEPT !.pc = "iter_end", !.nextpc = "done", !.res = what,
                          !.endstate = "error", !.endcursor = sess.cursor]
         ELSE [rec EXCEPT !.pc = "iter_end", !.nextpc = "errsleep", !.res = what,
                          !.endstate = sess.state, !.endcursor = sess.cursor]
    ELSE Return(rec, "exc")

RaisedSess(rec, sess, what) ==
    IF rec.kind = "poll" /\ what = "premium"
    THEN [sess EXCEPT !.state = "error", !.error_message = TRUE]
    ELSE sess

\* The return of _poll_playback followed by the while test of _poll_loop.
IterEnd(rec, sess) ==
    [rec EXCEPT !.pc = "iter_end",
                !.nextpc = IF sess.state = "playing" THEN "sleep" ELSE "done",
                !.res = "ok", !.endstate = sess.state, !.endcursor = sess.cursor]

\* _fill_buffer up to its first await: the range is computed once, from the
\* cursor and queued_until_index at entry; an empty range goes straight to
\* _persist_cursor.  The session records what the player's queue was given
\* since the last successful play call: queued, the indices whose enqueue
\* succeeded, and full, 1 + the cursor for which a fill ran to its end.
_fill_buffer(id, rec, s, sess, ret) ==
    LET end_index == Min(sess.cursor + queue_buffer_size, Len(sess.order) - 1)
        start_from == Max(sess.queued_until_index, sess.cursor) + 1
    IN IF start_from <= end_index
       THEN /\ sessions' = [sessions EXCEPT ![s] = sess]
            /\ co' = [co EXCEPT ![id] = [rec EXCEPT !.pc = "enq", !.i = start_from,
                                          !.fcur = sess.cursor,
                                          !.endi = end_index, !.ret = ret,
                                          !.nfill = @ + 1, !.nenq = @ + 1,
                                          !.first = start_from,
                                          !.q0 = sess.queued_until_index]]
            /\ UNCHANGED <<runs, registry>>
       ELSE /\ sessions' = [sessions EXCEPT ![s] = [sess EXCEPT !.full = sess.cursor + 1]]
            /\ co' = [co EXCEPT ![id] = [rec EXCEPT !.pc = "fill_done", !.ret = ret,
                                          !.fcur = sess.cursor,
                                          !.nfill = @ + 1,
                                          !.first = start_from,
                                          !.q0 = sess.queued_until_index]]
            /\ runs' = _persist_cursor(runs, sess)
            /\ UNCHANGED registry

\* ------------------------------------------------------- command: start
\* create_or_resume_run, from the session construction on, followed by
\* start_playback up to its await of _find_active_device.
Register(cs, c, rec, run_id, rs) ==
    LET sess == [ControllerSession(run_id, rs[run_id].shuffled_order, rs[run_id].cursor,
                                   rs[run_id].queued_until_index)
                 EXCEPT !.state = "starting"]
        s == Len(sessions) + 1
    IN /\ sessions' = Append(sessions, sess)
       /\ registry' = s
       /\ co' = [cs EXCEPT ![c] = [rec EXCEPT !.pc = "devices", !.s = s]]

\* create_or_resume_run up to its first remote call, on the run store rs and
\* with reg registered: the SELECT of the active run; an existing row is
\* resumed at once, otherwise the playlist is fetched first.
create_or_resume_run(cs, c, rec, rs, reg) ==
    LET row == find_active_controller(rs) IN
    IF row # 0
    THEN /\ Register(cs, c, [rec EXCEPT !.row = row, !.c0 = rs[row].cursor], row, rs)
         /\ runs' = rs
    ELSE /\ co' = [cs EXCEPT ![c] = [rec EXCEPT !.pc = "fetch"]]
         /\ runs' = rs
         /\ registry' = reg
         /\ UNCHANGED sessions

\* Commands that will still construct a session.
PendingSessions ==
    Cardinality({c \in CmdIds : co[c].kind \in {"start", "refresh"}
                                /\ co[c].pc \in {"fetch", "stop_wait", "persist"}})

\* POST /controller/start.
IssueStart(c) ==
    /\ NextFreeCmd(c)
    /\ Len(sessions) + PendingSessions < MaxSessions
    /\ LET rec == [NoCo EXCEPT !.kind = "start", !.overlap = Busy,
                      !.pre_live = (registry # 0 /\ TaskAlive(sessions[registry])),
                      !.pre_norun = (runs = <<>>),
                      !.pre_conc = \E c2 \in CmdIds : co[c2].kind = "start" /\ InFlight(c2)]
           \* the starts in flight now overlap with this one
           cs == [id \in CoIds |-> IF co[id].kind = "start" /\ InFlight(id)
                                   THEN [Arrived[id] EXCEPT !.pre_conc = TRUE]
                                   ELSE Arrived[id]]
       IN create_or_resume_run(cs, c, rec, runs, registry)

\* _fetch_playlist_tracks has returned: an empty list is a ValueError (400);
\* otherwise the order is shuffled and the run row inserted, which the
\* UNIQUE(user_id, playlist_id, mode, status) constraint refuses when an
\* active row exists.
FetchReturn(c) ==
    /\ co[c].kind \in {"start", "refresh"} /\ co[c].pc = "fetch"
    /\ \/ /\ co' = [co EXCEPT ![c] = Return(@, "err400")]
          /\ UNCHANGED <<runs, sessions, registry>>
       \/ /\ co' = [co EXCEPT ![c] = Return(@, "exc")]
          /\ UNCHANGED <<runs, sessions, registry>>
       \/ \E draws \in ControllerDraws :
            LET order == _shuffle_order(PlaylistTracks, draws) IN
            IF UniqueViolated(runs, "active", 0)
            THEN /\ co' = [co EXCEPT ![c] = Return(@, "integrity")]
                 /\ UNCHANGED <<runs, sessions, registry>>
            ELSE LET rs == Append(runs, [shuffled_order |-> order, cursor |-> 0,
                                         queued_until_index |-> 0, status |-> "active"])
                 IN /\ runs' = rs
                    /\ Register(co, c, co[c], Len(rs), rs)

\* The no-device branch of start_playback with the message left unset.
NoDevice_silent(sess) == [sess EXCEPT !.state = "no_device"]

\* start_playback when _find_active_device found nothing: state NO_DEVICE
\* and the message asking the user to open Spotify.
NoDevice(sess) == [sess EXCEPT !.state = "no_device", !.error_message = TRUE]

\* start_playback after _find_active_device.
DevicesReturn(c) ==
    /\ co[c].kind \in {"start", "refresh"} /\ co[c].pc = "devices"
    /\ LET s == co[c].s
           sess == sessions[s]
       IN \/ /\ sessions' = [sessions EXCEPT ![s] = NoDevice(sess)]
             /\ co' = [co EXCEPT ![c] = Return([@ EXCEPT !.itkind = "no_device"], "ok")]
          \/ /\ sessions' = sessions
             /\ co' = [co EXCEPT ![c] = Return(@, "exc")]
          \/ IF sess.cursor >= Len(sess.order)
             THEN /\ sessions' = [sessions EXCEPT ![s].device_id = 1,
                                                  ![s].error_message = FALSE,
                                                  ![s].state = "completed"]
                  /\ co' = [co EXCEPT ![c] = Return(@, "ok")]
             ELSE /\ sessions' = [sessions EXCEPT ![s].device_id = 1,
                                                  ![s].error_message = FALSE]
                  /\ co' = [co EXCEPT ![c].pc = "put", ![c].nplay = @ + 1,
                                      ![c].playuri = OrderAt(sess, sess.cursor),
                                      ![c].playdev = 0]
    /\ UNCHANGED <<runs, registry>>

\* -------------------------------------------------------- command: next
\* POST /controller/next: get_session, then manual_next up to its sp_put.
IssueNext(c) ==
    /\ NextFreeCmd(c)
    /\ LET rec == [NoCo EXCEPT !.kind = "next", !.s = registry, !.overlap = Busy] IN
       IF registry = 0
       THEN /\ co' = [Arrived EXCEPT ![c] = Return(rec, "err404")]
            /\ UNCHANGED <<runs, sessions>>
       ELSE LET s == registry
                sess == sessions[s]
            IN IF sess.cursor + 1 >= Len(sess.order)
               THEN /\ sessions' = [sessions EXCEPT ![s].state = "completed"]
                    /\ runs' = _persist_cursor(runs, sess)
                    /\ co' = [Arrived EXCEPT ![c] = [rec EXCEPT !.pc = "persist",
                                                       !.c0 = sess.cursor]]
               ELSE /\ sessions' = [sessions EXCEPT ![s].cursor = @ + 1]
                    /\ co' = [Arrived EXCEPT ![c] = [rec EXCEPT !.pc = "put", !.nplay = 1,
                                                  !.c0 = sess.cursor,
                                                  !.playuri = OrderAt(sess, sess.cursor + 1),
                                                  !.playdev = 0]]
                    /\ UNCHANGED runs
    /\ UNCHANGED registry

\* -------------------------------------------------------- command: stop
\* stop_controller after the poll task has been awaited, up to the commit
\* of _persist_cursor.
StopTail(cs, c, rec, s) ==
    LET sess == [sessions[s] EXCEPT !.poll_task = 0, !.state = "idle"] IN
    /\ sessions' = [sessions EXCEPT ![s] = sess]
    /\ runs' = _persist_cursor(runs, sess)
    /\ co' = [cs EXCEPT ![c] = [rec EXCEPT !.pc = "persist", !.c0 = sessions[s].cursor]]

\* POST /controller/stop: get_session, then stop_controller; a live task is
\* cancelled and awaited before the rest runs.
IssueStop(c) ==
    /\ NextFreeCmd(c)
    /\ LET rec == [NoCo EXCEPT !.kind = "stop", !.s = registry, !.overlap = Busy] IN
       IF registry = 0
       THEN /\ co' = [Arrived EXCEPT ![c] = Return(rec, "err404")]
            /\ UNCHANGED <<runs, sessions>>
       ELSE IF TaskAlive(sessions[registry])
            THEN /\ co' = [Arrived EXCEPT ![c] = [rec EXCEPT !.pc = "stop_wait",
                                                  !.i = sessions[registry].poll_task],
                                     ![sessions[registry].poll_task] = Cancelled(@)]
                 /\ UNCHANGED <<runs, sessions>>
            ELSE StopTail(Arrived, c, rec, registry)
    /\ UNCHANGED registry

\* "await session.poll_task" is over: the cancelled task is done.
StopFinish(c) ==
    /\ co[c].kind \in {"stop", "refresh"} /\ co[c].pc = "stop_wait"
    /\ TaskDone(co, co[c].i)
    /\ StopTail(co, c, co[c], co[c].s)
    /\ UNCHANGED registry

\* The commit of the _persist_cursor that ends stop_controller, or the
\* completed branch of manual_next, is over: the handler returns.
PersistReturn(c) ==
    /\ co[c].kind \in {"next", "stop"} /\ co[c].pc = "persist"
    /\ co' = [co EXCEPT ![c] = Return(@, "ok")]
    /\ UNCHANGED <<runs, sessions, registry>>

\* A task whose cancellation was requested is run: CancelledError is raised
\* at its await and the task ends (_poll_loop returns, or the error leaves
\* it).
CancelDeliver(t) ==
    /\ co[t].kind = "poll" /\ co[t].pc = "cancelling"
    /\ co' = [co EXCEPT ![t].pc = "done"]
    /\ UNCHANGED <<runs, sessions, registry>>

\* ----------------------------------------------------- command: refresh
\* POST /controller/refresh: refresh_shuffle stops the registered session
\* first; with no session registered it goes straight to
\* create_or_resume_run.
IssueRefresh(c) ==
    /\ NextFreeCmd(c)
    /\ Len(sessions) + PendingSessions < MaxSessions
    /\ LET rec == [NoCo EXCEPT !.kind = "refresh", !.s = registry, !.overlap = Busy,
                      !.old = find_active_controller(runs)] IN
       IF registry = 0
       THEN create_or_resume_run(Arrived, c, rec, runs, 0)
       ELSE IF TaskAlive(sessions[registry])
            THEN /\ co' = [Arrived EXCEPT ![c] = [rec EXCEPT !.pc = "stop_wait",
                                                  !.i = sessions[registry].poll_task],
                                     ![sessions[registry].poll_task] = Cancelled(@)]
                 /\ UNCHANGED <<runs, sessions, registry>>
            ELSE /\ StopTail(Arrived, c, rec, registry)
                 /\ UNCHANGED registry

\* refresh_shuffle after stop_controller: the old run is marked cancelled
\* (refused by the UNIQUE constraint when the key already has a cancelled
\* row), the key is dropped from _sessions and create_or_resume_run runs.
RefreshCancel(c) ==
    /\ co[c].kind = "refresh" /\ co[c].pc = "persist"
    /\ LET old == sessions[co[c].s].run_id IN
       IF UniqueViolated(runs, "cancelled", old)
       THEN /\ co' = [co EXCEPT ![c] = Return(@, "integrity")]
            /\ UNCHANGED <<runs, sessions, registry>>
       ELSE create_or_resume_run(co, c, co[c],
                                 [runs EXCEPT ![old].status = "cancelled"], 0)

\* ------------------------------------------------------ command: import
\* The cursors an imported payload carries.
ImportCursors == {0, PlaylistLen}

\* POST /export/import: a row with the payload's order and cursor is
\* inserted with status active; queued_until_index takes its default.
IssueImport(c) ==
    /\ NextFreeCmd(c)
    /\ \E draws \in ControllerDraws, cursor \in ImportCursors :
       LET rec == [NoCo EXCEPT !.kind = "import"] IN
       IF UniqueViolated(runs, "active", 0)
       THEN /\ co' = [co EXCEPT ![c] = Return(rec, "integrity")]
            /\ UNCHANGED runs
       ELSE /\ runs' = Append(runs, [shuffled_order |-> _shuffle_order(PlaylistTracks, draws),
                                     cursor |-> cursor, queued_until_index |-> 0,
                                     status |-> "active"])
            /\ co' = [co EXCEPT ![c] = Return(rec, "ok")]
    /\ UNCHANGED <<sessions, registry>>

\* ------------------------------------------------------ process restart
\* The process ends and is started again: the run store is kept, every
\* session, task and unanswered request is gone.
Restart ==
    /\ restarts < MaxRestarts
    /\ runs # <<>>
    /\ restarts' = restarts + 1
    /\ sessions' = <<>>
    /\ registry' = 0
    /\ co' = [id \in CoIds |-> NoCo]
    /\ UNCHANGED <<runs, npolls>>

\* ---------------------------------------------------------- remote calls
\* The ways a call through the client ends for its caller: a 2xx response,
\* a returned non-2xx response, SpotifyPremiumRequired, another exception.
CallOutcomes == {"ok", "fail", "premium", "exc"}

\* The handling of a failed play with the state left as it was.
PlayFailed_quiet(sess) == [sess EXCEPT !.error_message = TRUE]

\* The play call raised SpotifyPremiumRequired or returned a status other
\* than 200 and 204: state ERROR and a message, nothing else.
PlayFailed(sess) == [sess EXCEPT !.state = "error", !.error_message = TRUE]

\* Resumption after sp_put("/me/player/play") in start_playback, manual_next
\* and _hard_override.
PutReturn(id) ==
    /\ co[id].pc = "put"
    /\ LET s == co[id].s
           sess == sessions[s]
           rec == co[id]
       IN \E outcome \in CallOutcomes :
          CASE outcome = "ok" ->
                 _fill_buffer(id, [rec EXCEPT !.playok = TRUE], s,
                              [sess EXCEPT !.queued_until_index = sess.cursor,
                                           !.started = TRUE,
                                           !.queued = {}, !.full = 0],
                              IF rec.kind = "poll" THEN "override"
                              ELSE IF rec.kind = "refresh" THEN "start" ELSE rec.kind)
            [] outcome \in {"fail", "premium"} ->
                 LET sess2 == PlayFailed(sess) IN
                 /\ sessions' = [sessions EXCEPT ![s] = sess2]
                 /\ co' = [co EXCEPT ![id] = IF rec.kind = "poll" THEN IterEnd(rec, sess2)
                                             ELSE Return(rec, "ok")]
                 /\ UNCHANGED <<runs, registry>>
            [] outcome = "exc" ->
                 /\ co' = [co EXCEPT ![id] = Raised(rec, sess, "exc")]
                 /\ UNCHANGED <<runs, sessions, registry>>

\* Resumption after sp_post("/me/player/queue") for index i of _fill_buffer.
EnqReturn(id) ==
    /\ co[id].pc = "enq"
    /\ LET s == co[id].s
           sess == sessions[s]
           rec == co[id]
       IN \E outcome \in CallOutcomes :
          CASE outcome = "ok" ->
                 LET sess2 == [sess EXCEPT !.queued_until_index = rec.i,
                                           !.queued = @ \cup {rec.i},
                                           !.full = IF rec.i + 1 <= rec.endi THEN @
                                                    ELSE rec.fcur + 1] IN
                 IF rec.i + 1 <= rec.endi
                 THEN /\ sessions' = [sessions EXCEPT ![s] = sess2]
                      /\ co' = [co EXCEPT ![id].i = @ + 1, ![id].nenq = @ + 1]
                      /\ UNCHANGED <<runs, registry>>
                 ELSE /\ sessions' = [sessions EXCEPT ![s] = sess2]
                      /\ runs' = _persist_cursor(runs, sess2)
                      /\ co' = [co EXCEPT ![id].pc = "fill_done"]
                      /\ UNCHANGED registry
            [] outcome = "fail" ->
                 /\ runs' = _persist_cursor(runs, sess)
                 /\ co' = [co EXCEPT ![id].pc = "fill_done"]
                 /\ UNCHANGED <<sessions, registry>>
            [] outcome \in {"premium", "exc"} ->
                 /\ sessions' = [sessions EXCEPT ![s] = RaisedSess(rec, sess, outcome)]
                 /\ co' = [co EXCEPT ![id] = Raised(rec, sess, outcome)]
                 /\ UNCHANGED <<runs, registry>>

\* The caller's code after "await _fill_buffer(session)".
FillDone(id) ==
    /\ co[id].pc = "fill_done"
    /\ LET s == co[id].s
           rec == co[id]
           sess == [sessions[s] EXCEPT !.state = "playing"]
       IN CASE rec.ret = "start" ->
                 /\ sessions' = [sessions EXCEPT ![s] = [sess EXCEPT !.poll_task = FreeTask]]
                 /\ co' = [_start_polling(co, sessions[s], s) EXCEPT
                              ![id] = Return([rec EXCEPT !.nlaunch = @ + 1], "ok")]
            [] rec.ret = "next" ->
                 IF TaskAlive(sessions[s])
                 THEN /\ sessions' = [sessions EXCEPT ![s] = sess]
                      /\ co' = [co EXCEPT ![id] = Return(rec, "ok")]
                 ELSE /\ sessions' = [sessions EXCEPT ![s] = [sess EXCEPT !.poll_task = FreeTask]]
                      /\ co' = [_start_polling(co, sessions[s], s) EXCEPT
                                   ![id] = Return([rec EXCEPT !.nlaunch = @ + 1], "ok")]
            [] OTHER ->
                 /\ sessions' = [sessions EXCEPT ![s] = sess]
                 /\ co' = [co EXCEPT ![id] = IterEnd(rec, sess)]
    /\ UNCHANGED <<runs, registry>>

\* The command's response has been sent.
CmdDone(c) ==
    /\ c \in CmdIds /\ co[c].pc = "returned"
    /\ co' = [co EXCEPT ![c] = [NoCo EXCEPT !.kind = "finished", !.pc = "done"]]
    /\ UNCHANGED <<runs, sessions, registry>>

\* ------------------------------------------------------------- poll task
\* After an iteration: the task sleeps (3 s before the next iteration, or in
\* the handler of a logged exception) or has left the loop.
PollSleep(t) ==
    /\ co[t].kind = "poll" /\ co[t].pc = "iter_end"
    /\ co' = [co EXCEPT ![t] = [NoCo EXCEPT !.kind = "poll", !.s = co[t].s,
                                            !.pc = co[t].nextpc]]
    /\ UNCHANGED <<runs, sessions, registry>>

\* The while test of _poll_loop, at task start and after the handler of a
\* logged exception has slept.
PollLoop(t) ==
    /\ co[t].kind = "poll" /\ co[t].pc \in {"loop", "errsleep"}
    /\ co' = [co EXCEPT ![t].pc = IF sessions[co[t].s].state = "playing"
                                  THEN "sleep" ELSE "done"]
    /\ UNCHANGED <<runs, sessions, registry>>

\* asyncio.sleep(3) is over: _poll_playback up to its sp_get.
PollPlayback(t) ==
    /\ co[t].kind = "poll" /\ co[t].pc = "sleep"
    /\ LET s == co[t].s
           sess == sessions[s]
           rec == co[t]
       IN IF sess.cursor >= Len(sess.order)
          THEN LET sess2 == [sess EXCEPT !.state = "completed"] IN
               /\ sessions' = [sessions EXCEPT ![s] = sess2]
               /\ co' = [co EXCEPT ![t] = IterEnd(rec, sess2)]
          ELSE /\ co' = [co EXCEPT ![t] = [rec EXCEPT !.pc = "get"]]
               /\ UNCHANGED sessions
    /\ UNCHANGED <<runs, registry>>

\* A poll iteration begins, one of the MaxPolls of the behaviour.
PollWake(t) ==
    /\ npolls < MaxPolls
    /\ npolls' = npolls + 1
    /\ PollPlayback(t)

\* The URI after the one expected.
expected_uri_next(sess) == OrderAt(sess, Min(sess.cursor + 1, Len(sess.order) - 1))

\* expected_uri = session.order[session.cursor]
expected_uri(sess) == OrderAt(sess, sess.cursor)

\* The offsets 2..5 of the multi-skip scan at which the reported URI is found.
SkipOffsets(sess, uri) ==
    {k \in 2..MaxSkipOffset : sess.cursor + k < Len(sess.order)
                              /\ uri = OrderAt(sess, sess.cursor + k)}

\* _poll_playback after sp_get("/me/player"): no playback, a paused item, or
\* a playing item whose URI is classified against the order.
PollGetReturn(t) ==
    /\ co[t].kind = "poll" /\ co[t].pc = "get"
    /\ LET s == co[t].s
           sess == sessions[s]
           rec == co[t]
       IN \/ /\ co' = [co EXCEPT ![t] = IterEnd([rec EXCEPT !.itkind = "absent"], sess)]
             /\ UNCHANGED <<runs, sessions, registry>>
          \/ /\ co' = [co EXCEPT ![t] = IterEnd([rec EXCEPT !.itkind = "paused"], sess)]
             /\ UNCHANGED <<runs, sessions, registry>>
          \/ \E what \in {"premium", "exc"} :
             /\ sessions' = [sessions EXCEPT ![s] = RaisedSess(rec, sess, what)]
             /\ co' = [co EXCEPT ![t] = Raised(rec, sess, what)]
             /\ UNCHANGED <<runs, registry>>
          \/ \E current_uri \in Uris :
             LET obs == [rec EXCEPT !.uri = current_uri, !.c0 = sess.cursor,
                                    !.st0 = sess.state]
                 next_cursor == sess.cursor + 1
             IN IF current_uri = expected_uri(sess)
                THEN /\ co' = [co EXCEPT ![t] = IterEnd([obs EXCEPT !.itkind = "same"], sess)]
                     /\ UNCHANGED <<runs, sessions, registry>>
                ELSE IF next_cursor < Len(sess.order)
                        /\ current_uri = OrderAt(sess, next_cursor)
                THEN _fill_buffer(t, [obs EXCEPT !.itkind = "advance"], s,
                                  [sess EXCEPT !.state = "advancing",
                                               !.cursor = next_cursor],
                                  "advance")
                ELSE IF SkipOffsets(sess, current_uri) # {}
                THEN LET offset == CHOOSE k \in SkipOffsets(sess, current_uri) :
                                     \A k2 \in SkipOffsets(sess, current_uri) : k <= k2
                     IN _fill_buffer(t, [obs EXCEPT !.itkind = "multiskip"], s,
                                     [sess EXCEPT !.cursor = sess.cursor + offset],
                                     "multiskip")
                ELSE \* _hard_override up to its sp_put
                     /\ sessions' = [sessions EXCEPT ![s].state = "overriding"]
                     /\ co' = [co EXCEPT ![t] = [obs EXCEPT !.itkind = "override",
                                                   !.pc = "put", !.nplay = @ + 1,
                                                   !.playuri = OrderAt(sess, sess.cursor),
                                                   !.playdev = sess.device_id]]
                     /\ UNCHANGED <<runs, registry>>

\* A coroutine that has just returned (a command) or ended an iteration (a
\* poll task) is recorded before anything else runs, so that the state in
\* which it returned is the state the next coroutine resumes in.
NothingToRecord == \A id \in CoIds : co[id].pc \notin {"returned", "iter_end"}

Next ==
    \/ \E c \in CmdIds : NothingToRecord /\ IssueStart(c) /\ UNCHANGED <<npolls, restarts, lockvars, shufflevars, exportvars, devicevars>>
    \/ \E c \in CmdIds : NothingToRecord /\ IssueRefresh(c) /\ UNCHANGED <<npolls, restarts, lockvars, shufflevars, exportvars, devicevars>>
    \/ \E c \in CmdIds : NothingToRecord /\ RefreshCancel(c) /\ UNCHANGED <<npolls, restarts, lockvars, shufflevars, exportvars, devicevars>>
    \/ \E c \in CmdIds : NothingToRecord /\ IssueImport(c) /\ UNCHANGED <<npolls, restarts, lockvars, shufflevars, exportvars, devicevars>>
    \/ NothingToRecord /\ Restart /\ UNCHANGED <<lockvars, shufflevars, exportvars, devicevars>>
    \/ \E c \in CmdIds : NothingToRecord /\ FetchReturn(c) /\ UNCHANGED <<npolls, restarts, lockvars, shufflevars, exportvars, devicevars>>
    \/ \E c \in CmdIds : NothingToRecord /\ DevicesReturn(c) /\ UNCHANGED <<npolls, restarts, lockvars, shufflevars, exportvars, devicevars>>
    \/ \E c \in CmdIds : NothingToRecord /\ IssueNext(c) /\ UNCHANGED <<npolls, restarts, lockvars, shufflevars, exportvars, devicevars>>
    \/ \E c \in CmdIds : NothingToRecord /\ IssueStop(c) /\ UNCHANGED <<npolls, restarts, lockvars, shufflevars, exportvars, devicevars>>
    \/ \E c \in CmdIds : NothingToRecord /\ StopFinish(c) /\ UNCHANGED <<npolls, restarts, lockvars, shufflevars, exportvars, devicevars>>
    \/ \E c \in CmdIds : NothingToRecord /\ PersistReturn(c) /\ UNCHANGED <<npolls, restarts, lockvars, shufflevars, exportvars, devicevars>>
    \/ \E t \in TaskIds : NothingToRecord /\ CancelDeliver(t) /\ UNCHANGED <<npolls, restarts, lockvars, shufflevars, exportvars, devicevars>>
    \/ \E c \in CmdIds : CmdDone(c) /\ UNCHANGED <<npolls, restarts, lockvars, shufflevars, exportvars, devicevars>>
    \/ \E id \in CoIds : NothingToRecord /\ PutReturn(id) /\ UNCHANGED <<npolls, restarts, lockvars, shufflevars, exportvars, devicevars>>
    \/ \E id \in CoIds : NothingToRecord /\ EnqReturn(id) /\ UNCHANGED <<npolls, restarts, lockvars, shufflevars, exportvars, devicevars>>
    \/ \E id \in CoIds : NothingToRecord /\ FillDone(id) /\ UNCHANGED <<npolls, restarts, lockvars, shufflevars, exportvars, devicevars>>
    \/ \E t \in TaskIds : NothingToRecord /\ PollLoop(t) /\ UNCHANGED <<npolls, restarts, lockvars, shufflevars, exportvars, devicevars>>
    \/ \E t \in TaskIds : NothingToRecord /\ PollWake(t) /\ UNCHANGED <<restarts, lockvars, shufflevars, exportvars, devicevars>>
    \/ \E t \in TaskIds : NothingToRecord /\ PollGetReturn(t) /\ UNCHANGED <<npolls, restarts, lockvars, shufflevars, exportvars, devicevars>>
    \/ \E t \in TaskIds : PollSleep(t) /\ UNCHANGED <<npolls, restarts, lockvars, shufflevars, exportvars, devicevars>>

Spec == Init /\ [][Next]_vars

\* ------------------------------------------------ SpotifyClient._request
\* A lookup that does not reuse the stored lock: every call gets a new one.
_get_lock_fresh(lks, u) == [NoLock EXCEPT !.exists = TRUE]

\* _get_lock: the user's lock, created on first use and kept in _locks.
_get_lock(lks, u) == [lks[u] EXCEPT !.exists = TRUE]

\* asyncio.Lock.acquire takes the lock at once only when it is free and no
\* waiter is queued.
CanAcquire(lk) == ~lk.locked /\ lk.waiters = <<>>

\* asyncio.Lock._wake_up_first: the future of the first waiter gets its
\* result; the waiter takes the lock when it runs.
WakeFirst(lk) ==
    IF lk.waiters = <<>> THEN lk ELSE [lk EXCEPT !.woken = @ \cup {Head(lk.waiters)}]

\* asyncio.Lock.release, at the exit of "async with lock".
Release(lk) == WakeFirst([lk EXCEPT !.locked = FALSE])

RemoveWaiter(seq, r) == SelectSeq(seq, LAMBDA x : x # r)

\* The statuses the upstream answers with.
Statuses == {200, 204, 400, 401, 403, 404, 429, 500, 502, 503}

\* _request(..., use_lock): _get_lock creates the user's lock on first use;
\* "async with lock" takes it or queues; without use_lock _do() starts at
\* once.  _do() begins with attempt 1 awaiting get_valid_token.
Request(r) ==
    /\ calls[r].pc = "idle"
    /\ \A r2 \in Callers : r2 < r => calls[r2].pc # "idle"
    /\ \E u \in Users, use_lock \in BOOLEAN :
       LET lk == _get_lock(locks, u) IN
       IF ~use_lock
       THEN /\ calls' = [calls EXCEPT ![r] = [NoCall EXCEPT !.user = u, !.pc = "token",
                                                !.attempt = 1]]
            /\ UNCHANGED locks
       ELSE IF CanAcquire(lk)
       THEN /\ locks' = [locks EXCEPT ![u] = [lk EXCEPT !.locked = TRUE]]
            /\ calls' = [calls EXCEPT ![r] = [NoCall EXCEPT !.user = u, !.use_lock = TRUE,
                                                !.pc = "token", !.attempt = 1]]
       ELSE /\ locks' = [locks EXCEPT ![u] = [lk EXCEPT !.waiters = Append(@, r)]]
            /\ calls' = [calls EXCEPT ![r] = [NoCall EXCEPT !.user = u, !.use_lock = TRUE,
                                                !.pc = "wait"]]

\* A woken waiter runs: it leaves the queue and holds the lock.
Acquired(r) ==
    /\ calls[r].pc = "wait"
    /\ r \in locks[calls[r].user].woken
    /\ locks' = [locks EXCEPT ![calls[r].user] =
                    [@ EXCEPT !.locked = TRUE, !.waiters = RemoveWaiter(@, r),
                              !.woken = @ \ {r}]]
    /\ calls' = [calls EXCEPT ![r].pc = "token", ![r].attempt = 1]

\* An exit that keeps the lock.
Leave_held(cl, r, res) ==
    /\ calls' = [cl EXCEPT ![r].pc = "returned", ![r].res = res]
    /\ UNCHANGED locks

\* The call leaves _request, by return or by raise; a locked call releases.
Leave(cl, r, res) ==
    /\ calls' = [cl EXCEPT ![r].pc = "returned", ![r].res = res]
    /\ IF calls[r].use_lock
       THEN locks' = [locks EXCEPT ![calls[r].user] = Release(@)]
       ELSE UNCHANGED locks

\* A loop that gives up after its first round.
Continue_once(cl, r) == Leave(cl, r, "raised_502")

\* A loop that hands the last response to the caller when it is exhausted.
Continue_last(cl, r) ==
    IF calls[r].attempt < MAX_RETRIES
    THEN /\ calls' = [cl EXCEPT ![r].pc = "token", ![r].attempt = @ + 1]
         /\ UNCHANGED locks
    ELSE Leave(cl, r, "returned_error")

\* The next round of "for attempt in range(1, MAX_RETRIES + 1)"; after the
\* last round the loop falls through to the 502 HTTPException.
Continue(cl, r) ==
    IF calls[r].attempt < MAX_RETRIES
    THEN /\ calls' = [cl EXCEPT ![r].pc = "token", ![r].attempt = @ + 1]
         /\ UNCHANGED locks
    ELSE Leave(cl, r, "raised_502")

\* get_valid_token has read the user's token record: it returns the stored
\* token when it has more than 60 s to live, otherwise it goes on to
\* _refresh_token, up to the POST to the token endpoint; with no record or
\* no refresh token it raises HTTPException(401).
TokenReturn(r) ==
    /\ calls[r].pc = "token"
    /\ \/ /\ tokens[calls[r].user] = "valid"
          /\ calls' = [calls EXCEPT ![r].pc = "http", ![r].fresh = FALSE]
          /\ UNCHANGED locks
       \/ /\ tokens[calls[r].user] = "expiring"
          /\ calls' = [calls EXCEPT ![r].pc = "refresh"]
          /\ UNCHANGED locks
       \/ Leave(calls, r, "raised_401")

\* _refresh_token after the token endpoint has answered: a 200 is written
\* to the user's record and its token returned, anything else raises
\* HTTPException(401).
RefreshReturn(r) ==
    /\ calls[r].pc = "refresh"
    /\ \/ /\ calls' = [calls EXCEPT ![r].pc = "http", ![r].fresh = TRUE]
          /\ tokens' = [tokens EXCEPT ![calls[r].user] = "valid"]
          /\ UNCHANGED locks
       \/ Leave(calls, r, "raised_401") /\ UNCHANGED tokens

\* Time passes: the stored token of user u has less than 60 s to live.
Expire(u) ==
    /\ tokens[u] = "valid"
    /\ tokens' = [tokens EXCEPT ![u] = "expiring"]
    /\ UNCHANGED <<locks, calls>>

\* The call table once call r has received a response with this status:
\* the responses of the call are counted.
Received(cl, r, status) ==
    [cl EXCEPT ![r].nhttp = @ + 1, ![r].last = status,
               ![r].n429 = @ + (IF status = 429 THEN 1 ELSE 0),
               ![r].n401 = @ + (IF status = 401 THEN 1 ELSE 0)]

\* Only the 403 branch raises.
NeverRetried_403(status) == status = 403

\* The statuses _do answers with an HTTPException of the same status.
NeverRetried(status) == status \in {403, 404}

\* client.request returns a response with one of these statuses (or raises
\* a transport error, which nothing in _do catches).
HttpReturnWith(r, answers) ==
    /\ calls[r].pc = "http"
    /\ \/ Leave(calls, r, "raised_transport")
       \/ \E status \in answers :
          LET cl == Received(calls, r, status) IN
          CASE status = 429 ->
                 /\ calls' = [cl EXCEPT ![r].pc = "sleep"]
                 /\ UNCHANGED locks
            [] status = 401 /\ calls[r].attempt = 1 -> Continue(cl, r)
            [] status \in {502, 503} /\ calls[r].attempt < MAX_RETRIES ->
                 /\ calls' = [cl EXCEPT ![r].pc = "sleep"]
                 /\ UNCHANGED locks
            [] NeverRetried(status) ->
                 Leave(cl, r, IF status = 403 THEN "raised_403" ELSE "raised_404")
            [] OTHER -> Leave(cl, r, IF status \in {200, 204} THEN "ok" ELSE "returned_error")

HttpReturn(r) == HttpReturnWith(r, Statuses)

\* asyncio.sleep(retry_after) or asyncio.sleep(2) is over.
SleepDone(r) ==
    /\ calls[r].pc = "sleep"
    /\ Continue(calls, r)

\* The calling task is cancelled at the await it is suspended on.
Cancel(r) ==
    /\ calls[r].pc \in {"wait", "token", "refresh", "http", "sleep"}
    /\ IF calls[r].pc = "wait"
       THEN LET lk == [locks[calls[r].user] EXCEPT !.waiters = RemoveWaiter(@, r),
                                                   !.woken = @ \ {r}]
            IN /\ locks' = [locks EXCEPT ![calls[r].user] =
                               IF lk.locked THEN lk ELSE WakeFirst(lk)]
               /\ calls' = [calls EXCEPT ![r].pc = "returned", ![r].res = "cancelled"]
       ELSE Leave(calls, r, "cancelled")

\* The caller has its result (a response or an exception).
CallDone(r) ==
    /\ calls[r].pc = "returned"
    /\ calls' = [calls EXCEPT ![r] = [NoCall EXCEPT !.pc = "done"]]
    /\ UNCHANGED locks

\* A call that has just left _request is recorded before anything else runs.
NoCallToRecord == \A r \in Callers : calls[r].pc # "returned"

NextLock ==
    \/ \E r \in Callers : NoCallToRecord /\ Request(r) /\ UNCHANGED <<tokens, ctlvars, shufflevars, exportvars, devicevars>>
    \/ \E r \in Callers : NoCallToRecord /\ Acquired(r) /\ UNCHANGED <<tokens, ctlvars, shufflevars, exportvars, devicevars>>
    \/ \E r \in Callers : NoCallToRecord /\ TokenReturn(r) /\ UNCHANGED <<tokens, ctlvars, shufflevars, exportvars, devicevars>>
    \/ \E r \in Callers : NoCallToRecord /\ RefreshReturn(r) /\ UNCHANGED <<ctlvars, shufflevars, exportvars, devicevars>>
    \/ \E u \in Users : NoCallToRecord /\ Expire(u) /\ UNCHANGED <<ctlvars, shufflevars, exportvars, devicevars>>
    \/ \E r \in Callers : NoCallToRecord /\ HttpReturn(r) /\ UNCHANGED <<tokens, ctlvars, shufflevars, exportvars, devicevars>>
    \/ \E r \in Callers : NoCallToRecord /\ SleepDone(r) /\ UNCHANGED <<tokens, ctlvars, shufflevars, exportvars, devicevars>>
    \/ \E r \in Callers : NoCallToRecord /\ Cancel(r) /\ UNCHANGED <<tokens, ctlvars, shufflevars, exportvars, devicevars>>
    \/ \E r \in Callers : CallDone(r) /\ UNCHANGED <<tokens, ctlvars, shufflevars, exportvars, devicevars>>

SpecLock == Init /\ [][NextLock]_vars

\* ---------------------------------------------- calls that run to the end
\* The steps of a call as the event loop takes them.

RunRequest(r) ==
    NoCallToRecord /\ Request(r) /\ UNCHANGED <<tokens, ctlvars, shufflevars, exportvars, devicevars>>
RunAcquired(r) ==
    NoCallToRecord /\ Acquired(r) /\ UNCHANGED <<tokens, ctlvars, shufflevars, exportvars, devicevars>>
RunToken(r) ==
    NoCallToRecord /\ TokenReturn(r) /\ UNCHANGED <<tokens, ctlvars, shufflevars, exportvars, devicevars>>
RunRefresh(r) ==
    NoCallToRecord /\ RefreshReturn(r) /\ UNCHANGED <<ctlvars, shufflevars, exportvars, devicevars>>
RunExpire(u) ==
    NoCallToRecord /\ Expire(u) /\ UNCHANGED <<ctlvars, shufflevars, exportvars, devicevars>>
RunHttp(r, answers) ==
    NoCallToRecord /\ HttpReturnWith(r, answers) /\ UNCHANGED <<tokens, ctlvars, shufflevars, exportvars, devicevars>>
RunSleep(r) ==
    NoCallToRecord /\ SleepDone(r) /\ UNCHANGED <<tokens, ctlvars, shufflevars, exportvars, devicevars>>
RunCancel(r) ==
    NoCallToRecord /\ Cancel(r) /\ UNCHANGED <<tokens, ctlvars, shufflevars, exportvars, devicevars>>
RunReturned(r) ==
    CallDone(r) /\ UNCHANGED <<tokens, ctlvars, shufflevars, exportvars, devicevars>>

\* A single call of _request, with or without the lock, and the upstream
\* answering it; alone it never queues for the lock.
NextCall ==
    \/ RunRequest(1)
    \/ RunToken(1)
    \/ RunRefresh(1)
    \/ \E u \in Users : RunExpire(u)
    \/ RunHttp(1, Statuses)
    \/ RunSleep(1)
    \/ RunCancel(1)
    \/ RunReturned(1)

\* The token record is read, the token endpoint and the Web API answer or
\* the transport fails, a sleep ends, the caller goes on.  The call itself,
\* its cancellation and the ageing of the token are not forced.
FairCall ==
    /\ WF_vars(RunToken(1)) /\ WF_vars(RunRefresh(1)) /\ WF_vars(RunHttp(1, Statuses))
    /\ WF_vars(RunSleep(1)) /\ WF_vars(RunReturned(1))

SpecCall == Init /\ [][NextCall]_vars /\ FairCall

\* The calls of all callers, with the upstream answering with a success, a
\* 403, a 404 or a 429: the exits by return, by raise and by exhausted
\* retries.
LockAnswers == {200, 403, 404, 429}

NextWait ==
    \/ \E r \in Callers : RunRequest(r)
    \/ \E r \in Callers : RunAcquired(r)
    \/ \E r \in Callers : RunToken(r)
    \/ \E r \in Callers : RunRefresh(r)
    \/ \E u \in Users : RunExpire(u)
    \/ \E r \in Callers : RunHttp(r, LockAnswers)
    \/ \E r \in Callers : RunSleep(r)
    \/ \E r \in Callers : RunCancel(r)
    \/ \E r \in Callers : RunReturned(r)

\* The event loop runs a woken waiter, the token record is read, the token
\* endpoint and the Web API answer or the transport fails, a sleep ends,
\* the caller goes on.  New calls, cancellations and the ageing of a token
\* are not forced.
FairWait ==
    \A r \in Callers :
       /\ WF_vars(RunAcquired(r)) /\ WF_vars(RunToken(r)) /\ WF_vars(RunRefresh(r))
       /\ WF_vars(RunHttp(r, LockAnswers)) /\ WF_vars(RunSleep(r)) /\ WF_vars(RunReturned(r))

SpecWait == Init /\ [][NextWait]_vars /\ FairWait

\* ======================================================= core.shuffle
\* A URI is its prefix and the id after it; the empty string has neither.
Prefixes == {"spotify:track:", "spotify:local:"}
EmptyUri == [prefix |-> "", id |-> 0]
TrackUris == [prefix : Prefixes, id : 1..MaxIds] \cup {EmptyUri}

\* core.models.Track, and the fields of a playlist item the controller reads.
Tracks == [uri : TrackUris, is_playable : BOOLEAN, is_local : BOOLEAN,
           track_type : {"track", "episode"}]

\* Track.is_valid
is_valid(t) ==
    /\ t.is_playable /\ ~t.is_local /\ t.track_type = "track"
    /\ t.uri.prefix = "spotify:track:"

\* filter_valid_tracks: the valid tracks, in order.
filter_valid_tracks(ts) == SelectSeq(ts, is_valid)

\* dedup_by_uri: the first track of every URI, in order.
RECURSIVE dedup_by_uri(_, _)
dedup_by_uri(ts, acc) ==
    IF ts = <<>> THEN acc
    ELSE IF \E k \in 1..Len(acc) : acc[k].uri = Head(ts).uri
         THEN dedup_by_uri(Tail(ts), acc)
         ELSE dedup_by_uri(Tail(ts), Append(acc, Head(ts)))

\* fisher_yates_shuffle with the draws the rng makes.
fisher_yates_shuffle(list, draws) == FisherYates(list, draws, Len(list) - 1)

\* _first_n_similarity times n: the number of equal positions among the
\* first n, 0 when a list is shorter than n.
_first_n_similarity(a, b, n) ==
    IF Len(a) < n \/ Len(b) < n THEN 0
    ELSE Cardinality({k \in 1..n : a[k] = b[k]})

\* shuffle_with_guard from its attempt-th round on; round k shuffles a copy
\* with the draws rounds[k + 1].  sim <= similarity_threshold (0.5) is
\* 2 * matches <= similarity_window.
RECURSIVE GuardRound(_, _, _, _)
GuardRound(list, previous, rounds, attempt) ==
    LET candidate == fisher_yates_shuffle(list, rounds[attempt + 1]) IN
    IF ~previous.given THEN candidate
    ELSE IF 2 * _first_n_similarity(candidate, previous.seq, similarity_window)
                <= similarity_window
         THEN candidate
         ELSE IF attempt < max_retries
              THEN GuardRound(list, previous, rounds, attempt + 1)
              ELSE candidate

shuffle_with_guard(list, previous, rounds) == GuardRound(list, previous, rounds, 0)

UrisOf(ts) == [k \in 1..Len(ts) |-> ts[k].uri]

\* prepare_shuffled_run: filter, dedup, shuffle with guard.
prepare_shuffled_run(ts, previous, rounds) ==
    shuffle_with_guard(UrisOf(dedup_by_uri(filter_valid_tracks(ts), <<>>)), previous, rounds)

\* The test on a playlist item in _fetch_playlist_tracks: not local, of type
\* track, with a non-empty uri.
Fetched(t) == ~t.is_local /\ t.track_type = "track" /\ t.uri # EmptyUri

\* _fetch_playlist_tracks on the items the playlist pages carry.
_fetch_playlist_tracks(ts) == UrisOf(SelectSeq(ts, Fetched))

\* The inputs: track lists, the draws of each round, a previous order.
RECURSIVE ListsUpTo(_, _)
ListsUpTo(S, n) ==
    IF n = 0 THEN {<<>>}
    ELSE LET shorter == ListsUpTo(S, n - 1)
         IN shorter \cup {Append(l, x) : l \in {m \in shorter : Len(m) = n - 1}, x \in S}

NoPrevious == [given |-> FALSE, seq |-> <<>>]
PreviousOrders ==
    {NoPrevious, [given |-> TRUE, seq |-> <<[prefix |-> "spotify:track:", id |-> 1]>>]}

InitShuffle ==
    /\ InitCtl /\ InitLock /\ NoExport /\ NoPlayer
    /\ items \in ListsUpTo(Tracks, MaxItems)
    /\ previous_order \in PreviousOrders
    /\ \E d \in DrawSeqs(MaxItems) : rnd = [k \in 1..(max_retries + 1) |-> d]
    /\ stage = "input"
    /\ kept = <<>>
    /\ shuffled = <<>>

\* prepare_shuffled_run(tracks, previous_order=..., rng=...)
PrepareRun ==
    /\ stage = "input"
    /\ stage' = "prepared"
    /\ kept' = UrisOf(filter_valid_tracks(items))
    /\ shuffled' = prepare_shuffled_run(items, previous_order, rnd)
    /\ UNCHANGED <<items, previous_order, rnd>>

\* create_or_resume_run: _shuffle_order(_fetch_playlist_tracks(...)).
ShuffleRun ==
    /\ stage = "input"
    /\ stage' = "controller"
    /\ kept' = _fetch_playlist_tracks(items)
    /\ shuffled' = _shuffle_order(_fetch_playlist_tracks(items), rnd[1])
    /\ UNCHANGED <<items, previous_order, rnd>>

NextShuffle ==
    \/ PrepareRun /\ UNCHANGED <<ctlvars, lockvars, exportvars, devicevars>>
    \/ ShuffleRun /\ UNCHANGED <<ctlvars, lockvars, exportvars, devicevars>>

SpecShuffle == InitShuffle /\ [][NextShuffle]_vars

\* ------------------------------------------- fisher_yates_shuffle alone
\* The lists of up to MaxN distinct items.
DistinctLists ==
    {l \in ListsUpTo(1..MaxN, MaxN) : \A a, b \in 1..Len(l) : l[a] = l[b] => a = b}

InitFY ==
    /\ InitCtl /\ InitLock /\ NoExport /\ NoPlayer
    /\ items \in DistinctLists
    /\ previous_order = NoPrevious
    /\ \E d \in DrawSeqs(Len(items)) : rnd = <<d>>
    /\ stage = "input"
    /\ kept = <<>>
    /\ shuffled = <<>>

\* fisher_yates_shuffle(items, rng=...): kept is the list as it was given.
FisherYatesShuffle ==
    /\ stage = "input"
    /\ stage' = "shuffled"
    /\ kept' = items
    /\ shuffled' = fisher_yates_shuffle(items, rnd[1])
    /\ UNCHANGED <<items, previous_order, rnd>>

NextFY == FisherYatesShuffle /\ UNCHANGED <<ctlvars, lockvars, exportvars, devicevars>>

SpecFY == InitFY /\ [][NextFY]_vars

\* ---------------------------------------------- shuffle_with_guard alone
\* The draws that leave the first m items where they are and move every
\* later item one place on (a cycle over the positions m..n-1).
CycleFrom(n, m) == [i \in 1..(n - 1) |-> IF i > m THEN i - 1 ELSE i]

\* The draws of a round: all items moved, the first 5 or 6 kept, none moved.
GuardDraws(n) == {CycleFrom(n, m) : m \in {0, 5, 6, n}}

\* The lists that are shuffled: one of similarity_window items, a short one.
GuardLists == {[k \in 1..similarity_window |-> k], [k \in 1..MaxItems |-> k]}

InitGuard ==
    /\ InitCtl /\ InitLock /\ NoExport /\ NoPlayer
    /\ items \in GuardLists
    /\ previous_order \in {NoPrevious, [given |-> TRUE, seq |-> items],
                           [given |-> TRUE, seq |-> <<1>>]}
    /\ rnd \in [1..(max_retries + 1) -> GuardDraws(Len(items))]
    /\ stage = "input"
    /\ kept = <<>>
    /\ shuffled = <<>>

\* sim < similarity_threshold
Accepted_below(candidate, previous) ==
    2 * _first_n_similarity(candidate, previous.seq, similarity_window)
        < similarity_window

\* sim <= similarity_threshold
Accepted(candidate, previous) ==
    2 * _first_n_similarity(candidate, previous.seq, similarity_window)
        <= similarity_window

\* One round of the loop of shuffle_with_guard: a copy of the list is
\* shuffled and returned or dropped; a round after which the loop is
\* exhausted returns its candidate.  kept holds the candidates so far.
GuardAttempt ==
    /\ stage \in {"input", "guard"}
    /\ Len(kept) <= max_retries
    /\ LET attempt == Len(kept)
           candidate == fisher_yates_shuffle(items, rnd[attempt + 1])
       IN /\ kept' = Append(kept, candidate)
          /\ shuffled' = candidate
          /\ stage' = IF \/ ~previous_order.given
                         \/ Accepted(candidate, previous_order)
                         \/ attempt = max_retries
                      THEN "returned" ELSE "guard"
    /\ UNCHANGED <<items, previous_order, rnd>>

NextGuard == GuardAttempt /\ UNCHANGED <<ctlvars, lockvars, exportvars, devicevars>>

SpecGuard == InitGuard /\ [][NextGuard]_vars

\* ====================================================== core.exporter
\* A JSON text is invalid, a value that is no object, or an object, given by
\* its members in the order of the text; a key may occur more than once.
Member(k, v) == [key |-> k, value |-> v]

\* ExportPayload: the declared fields, the required ones, and the keys
\* import_run pops.
Declared == {"playlist_id", "mode", "shuffled_order", "cursor", "status", "exported_at"}
Required == Declared \ {"exported_at"}
Forbidden == {"token_data", "access_token", "refresh_token", "secret_key"}

\* The strings an int field accepts, and the number each stands for.
Digits == <<"0", "1", "2">>
IsNumeric(x) == \E d \in 1..Len(Digits) : Digits[d] = x
IntOf(x) == (CHOOSE d \in 1..Len(Digits) : Digits[d] = x) - 1

\* model_dump_json without the cursor.
model_dump_json_nocursor(fields) ==
    [valid |-> TRUE, object |-> TRUE,
     members |-> << Member("playlist_id", fields["playlist_id"]),
                    Member("mode", fields["mode"]),
                    Member("shuffled_order", fields["shuffled_order"]),
                    Member("status", fields["status"]),
                    Member("exported_at", fields["exported_at"]) >>]

\* ExportPayload.model_dump_json: the declared fields in declaration order.
model_dump_json(fields) ==
    [valid |-> TRUE, object |-> TRUE,
     members |-> << Member("playlist_id", fields["playlist_id"]),
                    Member("mode", fields["mode"]),
                    Member("shuffled_order", fields["shuffled_order"]),
                    Member("cursor", fields["cursor"]),
                    Member("status", fields["status"]),
                    Member("exported_at", fields["exported_at"]) >>]

\* Validation of one field: str fields take strings, shuffled_order a list
\* of strings, cursor a number or a string of digits, which it converts.
Accepts(k, v) ==
    CASE k = "shuffled_order" -> v.t = "list"
      [] k = "cursor" -> v.t = "int" \/ (v.t = "str" /\ IsNumeric(v.s))
      [] OTHER -> v.t = "str"
Coerce(k, v) == IF k = "cursor" /\ v.t = "str" THEN JInt(IntOf(v.s)) ELSE v

\* ExportPayload(**data): a missing required field or a value of the wrong
\* type is a ValidationError (a ValueError); keys that are no field are
\* ignored; exported_at defaults to "".
ExportPayload(data) ==
    IF /\ Required \subseteq DOMAIN data
       /\ \A k \in DOMAIN data \cap Declared : Accepts(k, data[k])
    THEN [res |-> "payload",
          fields |-> [k \in Declared |-> IF k \in DOMAIN data THEN Coerce(k, data[k])
                                        ELSE JStr("")]]
    ELSE [res |-> "ValueError", fields |-> NoPayload.fields]

\* export_run at time now.
export_run(run, now) ==
    model_dump_json(ExportPayload(
        [k \in Declared |->
            CASE k = "playlist_id" -> JStr(run.playlist_id)
              [] k = "mode" -> JStr(run.mode)
              [] k = "shuffled_order" -> JList(run.shuffled_order)
              [] k = "cursor" -> JInt(run.cursor)
              [] k = "status" -> JStr(run.status)
              [] OTHER -> JStr(now)]).fields)

\* json.loads of an object: a dict in which the last member of a key wins.
json_loads(members) ==
    [k \in {members[i].key : i \in 1..Len(members)} |->
        members[CHOOSE i \in 1..Len(members) :
                   /\ members[i].key = k
                   /\ \A j \in 1..Len(members) : members[j].key = k => j <= i].value]

\* import_run: invalid JSON is a ValueError; data.pop on a value that is no
\* dict raises outside the try (TypeError / AttributeError); otherwise the
\* forbidden keys are popped and the payload is built.
import_run(text) ==
    IF ~text.valid THEN [res |-> "ValueError", fields |-> NoPayload.fields]
    ELSE IF ~text.object THEN [res |-> "TypeError", fields |-> NoPayload.fields]
    ELSE LET data == json_loads(text.members)
         IN ExportPayload([k \in DOMAIN data \ Forbidden |-> data[k]])

\* The runs that are exported, and the documents that are uploaded: an
\* exported document, or none, between added members; a text that is no
\* JSON; a JSON list.
TrackNames == {"spotify:track:1", "spotify:track:2"}
RunStates ==
    [playlist_id : {"p1", "access_token"}, mode : {"utility", "controller"},
     shuffled_order : ListsUpTo(TrackNames, 2), cursor : 0..MaxCursor,
     status : {"active", "completed", "cancelled"}]
ExtraMembers ==
    {Member(k, v) : k \in Forbidden \cup {"note", "cursor"},
                    v \in {JStr("2"), JObj}}
Uploads ==
    {[valid |-> TRUE, object |-> TRUE, members |-> pre \o base \o post] :
        pre \in ListsUpTo(ExtraMembers, MaxExtras),
        post \in ListsUpTo(ExtraMembers, MaxExtras),
        base \in {<<>>} \cup {export_run(r, "t0").members :
                               r \in {x \in RunStates : x.playlist_id = "p1"
                                                        /\ x.mode = "controller"
                                                        /\ x.status = "active"
                                                        /\ x.cursor = 1}}}
    \cup {[valid |-> FALSE, object |-> FALSE, members |-> <<>>],
          [valid |-> TRUE, object |-> FALSE, members |-> <<>>]}

InitExport ==
    /\ InitCtl /\ InitLock /\ NoShuffle /\ NoPlayer
    /\ \/ exported \in RunStates /\ raw_json = [valid |-> TRUE, object |-> TRUE, members |-> <<>>]
       \/ exported = NoRun /\ raw_json \in Uploads
    /\ payload = NoPayload
    /\ xstage = "input"

\* GET /export/{run_id}: export_run of the row.
ExportRun ==
    /\ xstage = "input" /\ exported # NoRun
    /\ \E now \in {"t0", "t1"} : raw_json' = export_run(exported, now)
    /\ xstage' = "exported"
    /\ UNCHANGED <<exported, payload>>

\* POST /export/import: import_run of the uploaded body.
ImportRun ==
    /\ \/ xstage = "exported"
       \/ xstage = "input" /\ exported = NoRun
    /\ payload' = import_run(raw_json)
    /\ xstage' = "imported"
    /\ UNCHANGED <<exported, raw_json>>

NextExport ==
    \/ ExportRun /\ UNCHANGED <<ctlvars, lockvars, shufflevars, devicevars>>
    \/ ImportRun /\ UNCHANGED <<ctlvars, lockvars, shufflevars, devicevars>>

SpecExport == InitExport /\ [][NextExport]_vars

\* =============================================== playback to the end
\* The player as one listening session sees it: player = k in 1..n means it
\* plays the k-th track of the order, n + 1 that the last track has
\* finished (the player then reports a track of no order, or reports that
\* nothing is playing).  No remote call fails (GET /me/player may answer
\* 204), the tracks are played in sequence, and a track only ends once the
\* poll task has seen it begin.
Ended == player = PlaylistLen + 1

\* A successful play call makes the player play the track it names.
Played(id) ==
    /\ co'[id].pc \in {"enq", "fill_done"}
    /\ player' = sessions[co[id].s].cursor + 1

\* What GET /me/player answers in the poll iteration of task t.
Reports(t) ==
    IF Ended
    THEN \/ co'[t].itkind \in {"absent", "paused"}
         \/ co'[t].itkind = "override" /\ co'[t].uri = 0
    ELSE \/ co'[t].itkind = "absent"
         \/ /\ co'[t].itkind \in {"same", "advance", "multiskip", "override"}
            /\ co'[t].uri = sessions[co[t].s].order[player]

\* The track being played ends and the player goes on to the next of the
\* order; the advance to the track that ends was observed.
TrackEnds ==
    /\ player \in 1..PlaylistLen
    /\ registry # 0
    /\ sessions[registry].state = "playing"
    /\ sessions[registry].cursor + 1 = player
    /\ player' = player + 1
    /\ UNCHANGED <<runs, sessions, registry, co>>

StartOnce(c) == IssueStart(c) /\ runs = <<>> /\ \A id \in CoIds : co[id].kind = "none"

Others == <<npolls, restarts, lockvars, shufflevars, exportvars>>

LiveStart(c) == NothingToRecord /\ StartOnce(c) /\ UNCHANGED <<Others, devicevars>>
LiveFetch(c) == NothingToRecord /\ FetchReturn(c) /\ co'[c].pc = "devices" /\ UNCHANGED <<Others, devicevars>>
LiveDevices(c) == NothingToRecord /\ DevicesReturn(c) /\ co'[c].pc = "put" /\ UNCHANGED <<Others, devicevars>>
LivePut(id) == NothingToRecord /\ PutReturn(id) /\ Played(id) /\ UNCHANGED Others
LiveEnq(id) == NothingToRecord /\ EnqReturn(id) /\ co'[id].pc \in {"enq", "fill_done"} /\ UNCHANGED <<Others, devicevars>>
LiveFillDone(id) == NothingToRecord /\ FillDone(id) /\ UNCHANGED <<Others, devicevars>>
LiveCmdDone(c) == CmdDone(c) /\ UNCHANGED <<Others, devicevars>>
LivePollLoop(t) == NothingToRecord /\ PollLoop(t) /\ UNCHANGED <<Others, devicevars>>
LivePollPlayback(t) == NothingToRecord /\ PollPlayback(t) /\ UNCHANGED <<Others, devicevars>>
LivePollGet(t) == NothingToRecord /\ PollGetReturn(t) /\ Reports(t) /\ UNCHANGED <<Others, devicevars>>
LivePollSleep(t) == PollSleep(t) /\ UNCHANGED <<Others, devicevars>>
LiveTrackEnds == NothingToRecord /\ TrackEnds /\ UNCHANGED Others

NextLive ==
    \/ \E c \in CmdIds : LiveStart(c)
    \/ \E c \in CmdIds : LiveFetch(c)
    \/ \E c \in CmdIds : LiveDevices(c)
    \/ \E id \in CoIds : LivePut(id)
    \/ \E id \in CoIds : LiveEnq(id)
    \/ \E id \in CoIds : LiveFillDone(id)
    \/ \E c \in CmdIds : LiveCmdDone(c)
    \/ \E t \in TaskIds : LivePollLoop(t)
    \/ \E t \in TaskIds : LivePollPlayback(t)
    \/ \E t \in TaskIds : LivePollGet(t)
    \/ \E t \in TaskIds : LivePollSleep(t)
    \/ LiveTrackEnds

\* The event loop runs every coroutine that is ready, every sleep ends and
\* every remote call returns; a track that plays ends.
FairLive ==
    /\ \A id \in CoIds : WF_vars(LivePut(id)) /\ WF_vars(LiveEnq(id)) /\ WF_vars(LiveFillDone(id))
    /\ \A c \in CmdIds : WF_vars(LiveFetch(c)) /\ WF_vars(LiveDevices(c)) /\ WF_vars(LiveCmdDone(c))
    /\ \A t \in TaskIds : WF_vars(LivePollLoop(t)) /\ WF_vars(LivePollPlayback(t))
    /\ \A t \in TaskIds : WF_vars(LivePollGet(t)) /\ WF_vars(LivePollSleep(t))
    /\ WF_vars(LiveTrackEnds)

SpecLive == Init /\ [][NextLive]_vars /\ FairLive

\* ================================================================ claims
Polls == {t \in TaskIds : co[t].kind = "poll"}
Cmds == {c \in CmdIds : co[c].kind \in {"start", "next", "stop"}}

\* The iteration of poll task t has just ended, and it had seen a playing
\* item.  An iteration that SpotifyPremiumRequired ended is the documented
\* exit to state error and is left aside.
SawPlaying(t) ==
    /\ co[t].pc = "iter_end"
    /\ co[t].itkind \in {"same", "advance", "multiskip", "override"}
    /\ co[t].res # "premium"

\* ... while the session was in state playing.
EndedPlaying(t) == SawPlaying(t) /\ co[t].st0 = "playing"

\* order[cursor .. cursor + 5], as far as the order reaches.
Window(sess, cursor) ==
    {OrderAt(sess, k) : k \in cursor..Min(cursor + MaxSkipOffset, Len(sess.order) - 1)}

\* The poll task of session s is inside an iteration, after a first write.
MidIteration(t) == co[t].kind = "poll" /\ co[t].pc \in {"put", "enq", "fill_done"}

\* No coroutine is inside an operation on session s.
Quiet(s) ==
    /\ \A c \in CmdIds : co[c].s = s => ~InFlight(c)
    /\ \A t \in TaskIds : co[t].kind = "poll" /\ co[t].s = s
                          => co[t].pc \in {"loop", "sleep", "errsleep", "iter_end",
                                             "cancelling", "done"}

\* s is the only session of its run.
Solo(s) == \A s2 \in 1..Len(sessions) : sessions[s2].run_id = sessions[s].run_id => s2 = s

\* C1: a poll iteration that sees a playing item in state playing invokes the
\* hard-override exactly when the URI is outside order[cursor..cursor+5]; the
\* override issues one play call for order[cursor], leaves the cursor alone,
\* and after a successful play call the iteration ends in state playing.
C1_OverrideIffForeign ==
    \A t \in TaskIds : EndedPlaying(t) =>
        LET sess == sessions[co[t].s] IN
        /\ (co[t].itkind = "override") <=> (co[t].uri \notin Window(sess, co[t].c0))
        /\ co[t].itkind = "override" =>
              /\ co[t].nplay = 1
              /\ co[t].playuri = OrderAt(sess, co[t].c0)
              /\ co[t].endcursor = co[t].c0
              /\ (co[t].playok => co[t].endstate = "playing")

\* C2: a poll iteration that sees order[cursor+k] playing (k in 1..5) ends
\* with the cursor at cursor+k, one buffer fill, no play call and state
\* playing.
C2_SkipAdvances ==
    \A t \in TaskIds :
        SawPlaying(t) =>
        LET sess == sessions[co[t].s] IN
        \A k \in 1..MaxSkipOffset :
            (co[t].c0 + k < Len(sess.order) /\ co[t].uri = OrderAt(sess, co[t].c0 + k)) =>
                /\ co[t].endcursor = co[t].c0 + k
                /\ co[t].nfill = 1
                /\ co[t].nplay = 0
                /\ co[t].endstate = "playing"

\* C3: a start issued while the registered session's poll loop is alive issues
\* no play or enqueue call and creates (registers) no new session.
C3_StartIdempotent ==
    \A c \in CmdIds :
        co[c].kind = "start" /\ co[c].pre_live =>
            co[c].nplay = 0 /\ co[c].nenq = 0 /\ co[c].s = 0

LiveTasks == {t \in TaskIds : co[t].kind = "poll" /\ ~TaskDone(co, t)}

\* C4: a start that overlapped another start, with no run before them,
\* returns without a constraint error, and there is then one run row and at
\* most one running poll task.
C4_ConcurrentStart ==
    \A c \in CmdIds :
        co[c].kind = "start" /\ co[c].pc = "returned" /\ co[c].pre_conc /\ co[c].pre_norun =>
            /\ co[c].res # "integrity"
            /\ Len(runs) <= 1
            /\ Cardinality(LiveTasks) <= 1

\* C6: a started session keeps 0 <= cursor <= |order| and
\* cursor - 1 <= queued_until_index < |order|.
C6_CursorBounds ==
    \A s \in 1..Len(sessions) :
        sessions[s].started =>
            /\ 0 <= sessions[s].cursor
            /\ sessions[s].cursor <= Len(sessions[s].order)
            /\ sessions[s].cursor - 1 <= sessions[s].queued_until_index
            /\ sessions[s].queued_until_index < Len(sessions[s].order)

\* C7: once started, queued_until_index >= cursor in the session and in its
\* run row whenever no operation on the session is in progress.
C7_QueuedAtLeastCursor ==
    \A s \in 1..Len(sessions) :
        sessions[s].started /\ Quiet(s) /\ Solo(s) =>
            /\ sessions[s].queued_until_index >= sessions[s].cursor
            /\ runs[sessions[s].run_id].queued_until_index >= runs[sessions[s].run_id].cursor

\* C8: the cursor of the registered session of a run never decreases.
C8_CursorMonotone ==
    [][(registry # 0 /\ registry' # 0
        /\ sessions[registry].run_id = sessions'[registry'].run_id)
       => sessions'[registry'].cursor >= sessions[registry].cursor]_vars

\* C9: no next or stop command is inside its body on a session while the
\* session's poll task is inside an iteration.
C9_CommandsExcludePoll ==
    \A c \in CmdIds, t \in TaskIds :
        ~(/\ co[c].kind \in {"next", "stop"} /\ InFlight(c)
          /\ MidIteration(t) /\ co[t].s = co[c].s)

\* C10: whenever no operation on a session is in progress (every command on
\* it has returned, its poll task is between iterations), the run row holds
\* the session's cursor and queued_until_index.
C10_PersistedBeforeReturn ==
    \A s \in 1..Len(sessions) :
        Quiet(s) /\ Solo(s) =>
            /\ runs[sessions[s].run_id].cursor = sessions[s].cursor
            /\ runs[sessions[s].run_id].queued_until_index = sessions[s].queued_until_index

\* C5: of the locked calls of one user at most one is inside _do() (waiting
\* for the token, with its HTTP request in flight, or in a retry sleep).
InDo(r) == calls[r].use_lock /\ calls[r].pc \in {"token", "refresh", "http", "sleep"}

C5_OneInFlightPerUser ==
    \A u \in Users : Cardinality({r \in Callers : InDo(r) /\ calls[r].user = u}) <= 1

\* Two locked calls of one user at once: one has its request in flight, the
\* other waits for the lock.
C5_Witness ==
    \E r1, r2 \in Callers :
        /\ r1 # r2 /\ calls[r1].user = calls[r2].user
        /\ calls[r1].use_lock /\ calls[r1].pc = "http"
        /\ calls[r2].use_lock /\ calls[r2].pc = "wait"

\* The poll tasks created for session s.
TasksOf(s) == {t \in TaskIds : co[t].kind = "poll" /\ co[t].s = s}

\* C11: when stop returns, every poll task of the session is done, the state
\* is idle, the run row holds the session's cursor and queued_until_index,
\* the cursor is the one stop found when it took effect, the run is still
\* active, and stop has issued no play or enqueue call.
C11_StopReturns ==
    \A c \in CmdIds :
        co[c].kind = "stop" /\ co[c].pc = "returned" /\ co[c].res = "ok" =>
            LET sess == sessions[co[c].s] IN
            /\ \A t \in TasksOf(co[c].s) : TaskDone(co, t)
            /\ sess.state = "idle"
            /\ runs[sess.run_id].cursor = sess.cursor
            /\ runs[sess.run_id].queued_until_index = sess.queued_until_index
            /\ sess.cursor = co[c].c0
            /\ runs[sess.run_id].status = "active"
            /\ co[c].nplay = 0 /\ co[c].nenq = 0

\* The step in which command c arrives as a start that finds an active run.
ResumingStart(c) ==
    co[c].kind = "none" /\ co'[c].kind = "start" /\ find_active_controller(runs) # 0

\* C12: a start that finds an active run constructs its session in the same
\* step, with that run's id, stored order and stored cursor, fetches no
\* playlist and inserts no row; its play call is for order[stored cursor].
C12_StartResumes ==
    /\ [][\A c \in CmdIds : ResumingStart(c) =>
            LET row == find_active_controller(runs)
                s == co'[c].s
            IN /\ co'[c].pc = "devices"
               /\ s = Len(sessions) + 1 /\ registry' = s
               /\ sessions'[s].run_id = row
               /\ sessions'[s].order = runs[row].shuffled_order
               /\ sessions'[s].cursor = runs[row].cursor
               /\ runs' = runs]_vars
    /\ [](\A c \in CmdIds :
            co[c].kind = "start" /\ co[c].row # 0 /\ co[c].nplay > 0 =>
                /\ co[c].nplay = 1
                /\ co[c].playuri = runs[co[c].row].shuffled_order[co[c].c0 + 1])

\* The session's poll task exists, has not finished and has no cancellation
\* pending.
Running(cs, sess) ==
    /\ sess.poll_task # 0 /\ cs[sess.poll_task].kind = "poll"
    /\ ~TaskDone(cs, sess.poll_task) /\ cs[sess.poll_task].pc # "cancelling"

NextIssued(c) == co[c].kind = "none" /\ co'[c].kind = "next" /\ registry # 0
NextReturns(c) == co[c].kind = "next" /\ co[c].pc # "returned" /\ co'[c].pc = "returned"

\* C13: next on a session whose cursor + 1 >= |order| sets the state to
\* completed and issues no play call; otherwise it increases the cursor by
\* exactly 1 and issues exactly one play call, for order[new cursor]; when
\* that call succeeds queued_until_index is reset to the new cursor and one
\* buffer fill runs, and next returns with state playing and a poll task
\* running.
C13_Next ==
    /\ [][\A c \in CmdIds : NextIssued(c) =>
             LET s == registry
                 sess == sessions[s]
             IN IF sess.cursor + 1 >= Len(sess.order)
                THEN sessions'[s].state = "completed" /\ co'[c].nplay = 0
                ELSE /\ sessions'[s].cursor = sess.cursor + 1 /\ co'[c].nplay = 1
                     /\ co'[c].playuri = OrderAt(sess, sess.cursor + 1)]_vars
    /\ [][\A c \in CmdIds : co[c].kind = "next" /\ co[c].pc = "put" /\ co'[c].playok =>
             /\ sessions'[co[c].s].queued_until_index = co[c].c0 + 1
             /\ co'[c].nfill = 1]_vars
    /\ [][\A c \in CmdIds : NextReturns(c) =>
             /\ co'[c].nplay = IF co'[c].c0 + 1 >= Len(sessions[co[c].s].order) THEN 0 ELSE 1
             /\ co'[c].playok /\ co'[c].res = "ok" =>
                    /\ sessions'[co[c].s].state = "playing"
                    /\ Running(co', sessions'[co[c].s])]_vars

\* A refresh invoked while the key had an active run (old) registers its
\* session in this step.
RefreshRegisters(c) ==
    /\ co'[c].kind = "refresh" /\ co'[c].old # 0
    /\ co[c].pc # "devices" /\ co'[c].pc = "devices"

\* C14: a refresh invoked for a key that has an active run, with or without
\* a registered session and however many refreshes came before, is not
\* refused by the run store; when it registers its session every poll task
\* of another session has terminated, the old run is cancelled, the session
\* is registered under the key and belongs to a run created in that step
\* with cursor 0; and the play it issues is for order[0] of that run.
C14_Refresh ==
    /\ [][\A c \in CmdIds : RefreshRegisters(c) =>
             LET s == co'[c].s
                 old == co'[c].old
             IN /\ \A t \in TaskIds : co'[t].kind = "poll" /\ co'[t].s # s => TaskDone(co', t)
                /\ runs'[old].status = "cancelled"
                /\ registry' = s
                /\ Len(runs') = Len(runs) + 1 /\ sessions'[s].run_id = Len(runs')
                /\ sessions'[s].cursor = 0
                /\ sessions'[s].order = runs'[Len(runs')].shuffled_order]_vars
    /\ [](\A c \in CmdIds : co[c].kind = "refresh" /\ co[c].old # 0 =>
             /\ co[c].res # "integrity"
             /\ co[c].nplay > 0 =>
                    /\ co[c].nplay = 1
                    /\ co[c].playuri = runs[sessions[co[c].s].run_id].shuffled_order[1])

\* C15: in every reachable state of the run store, whatever starts,
\* refreshes, stops, nexts and imports have run, at most one controller run
\* of the (user, playlist) is active.
C15_OneActiveRun == Cardinality(ActiveRuns(runs)) <= 1

\* An insert of an active row has been refused while the key had one.
C15_Witness ==
    /\ Cardinality(ActiveRuns(runs)) = 1
    /\ \E c \in CmdIds : co[c].kind \in {"start", "import"} /\ co[c].res = "integrity"

\* C16: when device discovery during start yields no device, start returns
\* with the session in state no_device and an error message set, and has
\* issued no play call and no enqueue call and launched no poll task.
C16_NoDevice ==
    /\ [][\A c \in CmdIds : co[c].pc = "devices" /\ co'[c].itkind = "no_device" =>
             /\ co'[c].pc = "returned"
             /\ sessions'[co[c].s].state = "no_device"
             /\ sessions'[co[c].s].error_message]_vars
    /\ [](\A c \in CmdIds : co[c].itkind = "no_device" =>
             co[c].nplay = 0 /\ co[c].nenq = 0 /\ co[c].nlaunch = 0)

C16_Witness ==
    \E c \in CmdIds : /\ co[c].kind = "start" /\ co[c].itkind = "no_device"
                       /\ co[c].pc = "returned"
                       /\ sessions[co[c].s].state = "no_device"

\* The play call of the start_playback that command c runs fails in this
\* step: it raised SpotifyPremiumRequired or returned a non-2xx status.
StartPlayFails(c) ==
    /\ co[c].kind \in {"start", "refresh"} /\ co[c].pc = "put"
    /\ co'[c].pc = "returned" /\ co'[c].res = "ok"

\* C17: when the play call during start raises PremiumRequired or returns
\* a non-2xx status, start returns with the session in state error and an
\* error message set, leaves cursor and queued_until_index as they were,
\* and has issued no enqueue call and launched no poll task.
C17_PlayFails ==
    /\ [][\A c \in CmdIds : StartPlayFails(c) =>
             LET s == co[c].s IN
             /\ sessions'[s].state = "error" /\ sessions'[s].error_message
             /\ sessions'[s].cursor = sessions[s].cursor
             /\ sessions'[s].queued_until_index = sessions[s].queued_until_index
             /\ runs' = runs]_vars
    /\ [](\A c \in CmdIds : /\ co[c].kind \in {"start", "refresh"} /\ co[c].pc = "returned"
                             /\ co[c].nplay > 0 /\ ~co[c].playok /\ co[c].res = "ok"
                             => co[c].nenq = 0 /\ co[c].nlaunch = 0)

C17_Witness ==
    \E c \in CmdIds : /\ co[c].kind = "start" /\ co[c].pc = "returned"
                       /\ co[c].nplay = 1 /\ ~co[c].playok /\ co[c].res = "ok"
                       /\ sessions[co[c].s].state = "error"

\* The outcomes in which the caller gets a response back.
Responses == {"ok", "returned_error"}
\* The outcomes the remote side or the caller's task forces on any attempt.
Interrupted == {"cancelled", "raised_401", "raised_transport"}
Success == {200, 204}

\* C18: a 429 is retried up to 3 attempts in all: while every response so
\* far was a 429 and fewer than 3 were received the call goes on; a success
\* on attempt k after k - 1 answers of 429 is returned to the caller, after
\* exactly k requests; after three 429s the caller gets no response but an
\* error.
C18_Retry429 ==
    \A r \in Callers :
       LET c == calls[r] IN
       /\ c.nhttp <= MAX_RETRIES
       /\ c.nhttp > 0 /\ c.n429 = c.nhttp /\ c.nhttp < MAX_RETRIES =>
              c.pc \in {"sleep", "token", "refresh", "http"} \/ c.res \in Interrupted
       /\ c.last \in Success /\ c.n429 = c.nhttp - 1 =>
              c.pc = "returned" /\ c.res = "ok" /\ c.attempt = c.nhttp
       /\ c.n429 = MAX_RETRIES =>
              c.pc = "sleep" \/ (c.pc = "returned" /\ c.res \notin Responses)

C18_Witness ==
    /\ \E r \in Callers : /\ calls[r].pc = "returned" /\ calls[r].res = "ok"
                          /\ calls[r].n429 = 2 /\ calls[r].nhttp = 3
                          /\ calls[r].last \in Success

\* Three answers of 429 ended a call with the 502 error.
C18_WitnessExhausted ==
    \E r \in Callers : calls[r].n429 = MAX_RETRIES /\ calls[r].res = "raised_502"

\* C19: every 5xx response received on attempt 1 or 2 causes another
\* attempt (the response is not handed to the caller), and no call makes
\* more than 3 attempts.
C19_Retry5xx ==
    \A r \in Callers :
       LET c == calls[r] IN
       /\ c.nhttp <= MAX_RETRIES
       /\ c.last \in 500..599 /\ c.nhttp < MAX_RETRIES =>
              c.pc \in {"sleep", "token", "refresh", "http"} \/ c.res \in Interrupted

\* Call r receives a 401 in this step.
Gets401(r) ==
    calls[r].pc = "http" /\ calls'[r].nhttp = calls[r].nhttp + 1 /\ calls'[r].last = 401

\* C20: the first 401 a call receives, on whichever attempt, is followed at
\* once by a retry, for which the token is refreshed; a second 401 ends the
\* call with an error and is not returned to the caller as a response.
C20_Retry401 ==
    /\ [][\A r \in Callers : Gets401(r) =>
             IF calls'[r].n401 = 1
             THEN calls'[r].pc = "token"
             ELSE calls'[r].pc = "returned" /\ calls'[r].res \notin Responses]_vars
    /\ [][\A r \in Callers : calls[r].pc = "token" /\ calls[r].last = 401
                             /\ calls'[r].pc = "http" => calls'[r].fresh]_vars

\* C21: a 403 or a 404, on whichever attempt it arrives, ends the call at
\* once with the error of that status; it is the last response of the call.
C21_NoRetry403404 ==
    \A r \in Callers :
       LET c == calls[r] IN
       /\ c.last = 403 => c.pc = "returned" /\ c.res = "raised_403"
       /\ c.last = 404 => c.pc = "returned" /\ c.res = "raised_404"

\* A 404 that arrived on the third attempt.
C21_Witness ==
    \E r \in Callers :
       calls[r].last = 404 /\ calls[r].nhttp = 3 /\ calls[r].res = "raised_404"

\* C22: a transport exception on an attempt is followed by another attempt
\* while fewer than 3 attempts were made; it reaches the caller only from
\* the last attempt.
C22_TransportRetried ==
    \A r \in Callers : calls[r].res = "raised_transport" => calls[r].attempt = MAX_RETRIES

\* C23: a call ends in one of two ways, with a 2xx response returned or
\* with an error; no response with another status is returned to the
\* caller.
C23_SuccessOrError ==
    \A r \in Callers : calls[r].pc = "returned" =>
       /\ calls[r].res # "returned_error"
       /\ calls[r].res = "ok" => calls[r].last \in Success

\* The number of positions of seq that hold x.
Count(x, seq) == Cardinality({k \in 1..Len(seq) : seq[k] = x})

\* C24: for every track list and every sequence of draws the shuffled
\* order holds each URI that passed the filter exactly once and nothing
\* else: the order of prepare_shuffled_run for the URIs of the valid
\* tracks, the order of _shuffle_order for the URIs it was given.
C24_Permutation ==
    /\ \A k \in 1..Len(shuffled) : shuffled[k] \in TrackUris
    /\ stage = "prepared" =>
          \A u \in TrackUris :
             Count(u, shuffled) =
                IF \E k \in 1..Len(items) : is_valid(items[k]) /\ items[k].uri = u
                THEN 1 ELSE 0
    /\ stage = "controller" =>
          \A u \in TrackUris : Count(u, shuffled) = IF Count(u, kept) > 0 THEN 1 ELSE 0

\* Three valid tracks, two of one URI, were shuffled into an order of two
\* that is not the order they came in.
C24_Witness ==
    /\ stage = "prepared" /\ Len(kept) = 3 /\ Len(shuffled) = 2
    /\ shuffled[1] # kept[1]

\* C25: the order of a controller run has no URI twice and only URIs of
\* the form spotify:track:*, whatever items the playlist holds.
C25_OrderWellFormed ==
    stage = "controller" =>
       /\ \A u \in TrackUris : Count(u, shuffled) <= 1
       /\ \A k \in 1..Len(shuffled) : shuffled[k].prefix = "spotify:track:"

\* C26: importing what export_run produced for a run gives a payload equal
\* to the run on playlist_id, mode, shuffled_order, cursor and status; and
\* whatever JSON is imported, a payload that results has none of the keys
\* access_token, refresh_token, token_data, secret_key.
C26_RoundTrip ==
    xstage = "imported" =>
       /\ exported # NoRun =>
             /\ payload.res = "payload"
             /\ payload.fields["playlist_id"] = JStr(exported.playlist_id)
             /\ payload.fields["mode"] = JStr(exported.mode)
             /\ payload.fields["shuffled_order"] = JList(exported.shuffled_order)
             /\ payload.fields["cursor"] = JInt(exported.cursor)
             /\ payload.fields["status"] = JStr(exported.status)
       /\ payload.res = "payload" => DOMAIN payload.fields \cap Forbidden = {}

\* A run with a cursor and an order of two was exported and imported.
C26_Witness ==
    /\ xstage = "imported" /\ exported # NoRun /\ payload.res = "payload"
    /\ exported.cursor = 2 /\ Len(exported.shuffled_order) = 2

\* An upload with a token member after the run's members gave a payload.
C26_WitnessUpload ==
    /\ xstage = "imported" /\ exported = NoRun /\ payload.res = "payload"
    /\ \E i \in 1..Len(raw_json.members) : raw_json.members[i].key \in Forbidden

\* The while test after the handler of a logged exception ends the loop.
LoopEndsAfterError(t) ==
    /\ co[t].kind = "poll" /\ co[t].pc = "errsleep"
    /\ co'[t].kind = "poll" /\ co'[t].pc = "done"

\* C27: an exception other than PremiumRequired or cancellation raised in a
\* poll iteration, at whatever point, is logged and the loop keeps running:
\* after the handler the poll task goes on to a later iteration and does
\* not leave the loop.
C27_PollSurvives == [][\A t \in TaskIds : ~LoopEndsAfterError(t)]_vars

\* A step taken by poll task t itself (not its cancellation by a command).
PollStep(t) ==
    /\ co[t].kind = "poll" /\ co'[t].kind = "poll"
    /\ co'[t] # co[t] /\ co'[t].pc # "cancelling"

\* The step leaves the task awaiting a Player call it has just issued.
IssuesCall(t) == co'[t].pc \in {"get", "put", "enq"}

\* C28: once the state of a session is error, its poll task issues no
\* further Player call and never changes the state away from error.
C28_ErrorTerminal ==
    [][\A t \in TaskIds :
          PollStep(t) /\ sessions[co[t].s].state = "error"
             => sessions'[co[t].s].state = "error" /\ ~IssuesCall(t)]_vars

\* C29: a poll iteration that set the state to advancing or overriding has
\* set it to playing, error or completed when the iteration ends, whatever
\* the remote calls answered.
C29_Transient ==
    \A t \in TaskIds :
        co[t].kind = "poll" /\ co[t].pc = "iter_end"
        /\ co[t].itkind \in {"advance", "override"}
           => sessions[co[t].s].state \in {"playing", "error", "completed"}

\* C30: whenever the state of a session is completed its cursor is at the
\* end of the order (cursor >= |order|) and the status snapshot reports
\* current_track_uri = null.
C30_Completed ==
    \A s \in 1..Len(sessions) :
        sessions[s].state = "completed"
           => /\ sessions[s].cursor >= Len(sessions[s].order)
              /\ to_status_dict(sessions[s]).current_track_uri = Null

\* The poll task issues a play call for the last track of the order after
\* that track has finished.
ReplaysLast(t) ==
    /\ co[t].kind = "poll" /\ co[t].pc # "put"
    /\ co'[t].kind = "poll" /\ co'[t].pc = "put"
    /\ Ended /\ co'[t].playuri = sessions[co[t].s].order[PlaylistLen]

\* C31: when the player has played the order in sequence, every advance
\* seen by a poll, then after the last track has finished the session
\* eventually is completed, and its poll task does not play the last track
\* of the order again.
C31_Completes ==
    /\ Ended ~> (registry # 0 /\ sessions[registry].state = "completed")
    /\ [][\A t \in TaskIds : ~ReplaysLast(t)]_vars

\* Coroutine id enters _fill_buffer in this step.
FillBegins(id) == co'[id].kind = co[id].kind /\ co'[id].nfill = co[id].nfill + 1

\* Coroutine id leaves the enqueue loop of _fill_buffer in this step.
FillEnds(id) == co[id].pc = "enq" /\ co'[id].kind = co[id].kind /\ co'[id].pc = "fill_done"

\* C32: a buffer fill calls enqueue for exactly the indices
\* max(queued_until_index, cursor) + 1 .. min(cursor + B, |order| - 1), in
\* ascending order; after the first enqueue that fails it calls no further
\* enqueue; queued_until_index ends at the last index whose enqueue
\* succeeded (unchanged if none did); cursor and queued_until_index are
\* persisted whether or not an enqueue failed.
C32_FillBuffer ==
    /\ [][\A id \in CoIds : FillBegins(id) =>
             LET sess == sessions'[co'[id].s]
                 lo == Max(sess.queued_until_index, sess.cursor) + 1
                 hi == Min(sess.cursor + queue_buffer_size, Len(sess.order) - 1)
             IN IF lo <= hi
                THEN co'[id].pc = "enq" /\ co'[id].i = lo /\ co'[id].endi = hi
                ELSE co'[id].pc = "fill_done" /\ co'[id].nenq = co[id].nenq]_vars
    /\ [][\A id \in CoIds :
             co[id].pc = "enq" /\ co'[id].kind = co[id].kind
             /\ co'[id].nenq = co[id].nenq + 1
                => /\ co'[id].pc = "enq" /\ co[id].i < co[id].endi
                   /\ sessions'[co[id].s].queued_until_index = co[id].i
                   /\ co'[id].i = co[id].i + 1]_vars
    /\ [][\A id \in CoIds : FillEnds(id) =>
             LET sess == sessions'[co[id].s]
                 row == runs'[sess.run_id]
             IN /\ \/ sess.queued_until_index = co[id].endi /\ co[id].i = co[id].endi
                   \/ sess.queued_until_index = IF co[id].i > co[id].first
                                                 THEN co[id].i - 1 ELSE co[id].q0
                /\ row.cursor = sess.cursor
                /\ row.queued_until_index = sess.queued_until_index]_vars

\* Coroutine id calls enqueue in this step, for index co'[id].i.
Enqueues(id) ==
    /\ co'[id].kind = co[id].kind /\ co'[id].pc = "enq"
    /\ co'[id].nenq = co[id].nenq + 1

\* C33: between two hard-plays of a session no index of the order is given
\* to enqueue again after it was enqueued, whatever fills poll advances and
\* commands trigger; and a fill that begins with the cursor for which a
\* fill ran to its end makes no enqueue call.
C33_NoReEnqueue ==
    /\ [][\A id \in CoIds : Enqueues(id) =>
             co'[id].i \notin sessions'[co'[id].s].queued]_vars
    /\ [][\A id \in CoIds :
             FillBegins(id) /\ sessions'[co'[id].s].full = sessions'[co'[id].s].cursor + 1
                => ~Enqueues(id)]_vars

\* Poll task t resumes from GET /me/player in this step.
GetReturns(t) ==
    co[t].kind = "poll" /\ co[t].pc = "get" /\ co'[t].kind = "poll" /\ co'[t].pc # "get"

\* What the step learned: no playback (204 or not 200, no item), a paused
\* item, or the playing URI co'[t].uri.
SawNothing(t) == co'[t].itkind \in {"absent", "paused"}
SawExpected(t) ==
    /\ co'[t].itkind \in {"same", "advance", "multiskip", "override"}
    /\ co'[t].uri = OrderAt(sessions[co[t].s], sessions[co[t].s].cursor)

\* C34: a poll iteration whose player-state request is absent or not 200,
\* or reports is_playing = false, or reports the URI order[cursor], leaves
\* cursor, queued_until_index, state, device_id and the run row unchanged
\* and issues no play and no enqueue call.
C34_NothingToDo ==
    [][\A t \in TaskIds : GetReturns(t) /\ (SawNothing(t) \/ SawExpected(t)) =>
          /\ co'[t].pc = "iter_end" /\ co'[t].res = "ok"
          /\ co'[t].nplay = 0 /\ co'[t].nenq = 0 /\ co'[t].nfill = 0
          /\ sessions' = sessions /\ runs' = runs]_vars

\* An iteration that saw order[cursor] playing has ended.
C34_Witness ==
    \E t \in TaskIds :
        /\ co[t].kind = "poll" /\ co[t].pc = "iter_end" /\ co[t].itkind = "same"
        /\ co[t].uri = OrderAt(sessions[co[t].s], sessions[co[t].s].cursor)
        /\ sessions[co[t].s].cursor > 0

\* Coroutine id issues a play call in this step.
Plays(id) == co'[id].kind # "none" /\ co'[id].pc = "put" /\ co'[id].nplay = co[id].nplay + 1

\* C35: once a device has been selected for a session, every play call
\* made for it (by start, by next, by a hard-override) carries that
\* device_id.
C35_PlayCarriesDevice ==
    [][\A id \in CoIds : Plays(id) /\ sessions'[co'[id].s].device_id # 0
          => co'[id].playdev = sessions'[co'[id].s].device_id]_vars

\* The calls of user u that are inside _refresh_token.
Refreshing(u) == {r \in Callers : calls[r].user = u /\ calls[r].pc = "refresh"}

\* C36: for any user at most one token refresh is in progress at any
\* instant, however locked Player calls and unlocked calls of that user
\* whose token is near expiry interleave.
C36_OneRefresh == \A u \in Users : Cardinality(Refreshing(u)) <= 1

\* The permutations of a list of distinct items.
PermutationsOf(l) ==
    {p \in [1..Len(l) -> {l[k] : k \in 1..Len(l)}] :
        \A a, b \in 1..Len(l) : p[a] = p[b] => a = b}

\* C37: on a list of n distinct items, n <= 4, the n! draw sequences with
\* j in [0, i] for i = n-1 down to 1 map one-to-one onto the n! permutations
\* of the list: the result is a permutation, no other draw sequence gives
\* it, and every permutation is the result of some draw sequence.
C37_OneToOne ==
    stage = "shuffled" =>
       LET n == Len(kept) IN
       /\ shuffled \in PermutationsOf(kept)
       /\ \A d \in DrawSeqs(n) : fisher_yates_shuffle(kept, d) = shuffled => d = rnd[1]
       /\ Cardinality(DrawSeqs(n)) = Factorial(n)
       /\ {fisher_yates_shuffle(kept, d) : d \in DrawSeqs(n)} = PermutationsOf(kept)

\* Four distinct items were shuffled into another order.
C37_Witness ==
    stage = "shuffled" /\ Len(kept) = 4 /\ shuffled # kept /\ shuffled[4] # kept[4]
       /\ shuffled[1] # kept[1]

\* The positional-match fraction of a candidate with previous_order over
\* the first 10 elements is above 0.5.
Exceeds(candidate) ==
    2 * _first_n_similarity(candidate, previous_order.seq, similarity_window)
        > similarity_window

\* C38: shuffle_with_guard makes at most 6 shuffles and a round that does
\* not return is followed by another; with a previous_order it returns the
\* first candidate that does not exceed 0.5, the sixth when all six exceed
\* it; without previous_order it returns after one shuffle.
C38_Guard ==
    /\ Len(kept) <= max_retries + 1
    /\ \A k \in 1..Len(kept) : kept[k] = fisher_yates_shuffle(items, rnd[k])
    /\ stage = "guard" => Len(kept) \in 1..max_retries
    /\ stage = "returned" =>
          /\ shuffled = kept[Len(kept)]
          /\ shuffled = shuffle_with_guard(items, previous_order, rnd)
          /\ ~previous_order.given => Len(kept) = 1
          /\ previous_order.given =>
                /\ \A k \in 1..(Len(kept) - 1) : Exceeds(kept[k])
                /\ Exceeds(shuffled) => Len(kept) = max_retries + 1

\* The third candidate was the first with no more than 5 of the first 10
\* items in place, and it has 5.
C38_Witness ==
    /\ stage = "returned" /\ previous_order.given /\ Len(kept) = 3
    /\ _first_n_similarity(shuffled, previous_order.seq, similarity_window) = 5

\* Six candidates exceeded 0.5 and the sixth was returned.
C38_WitnessExhausted ==
    stage = "returned" /\ Len(kept) = max_retries + 1 /\ Exceeds(shuffled)

\* Call r is inside _do.
InCall(r) == calls[r].pc \in {"token", "refresh", "http", "sleep"}

\* C39: whatever the upstream answers, a call receives at most 3 responses
\* and, once it runs, leaves _request with a response or an exception; a
\* call whose third response was a 429 leaves with the 502 error (unless
\* its task was cancelled first).
C39_Terminates ==
    /\ [](\A r \in Callers : calls[r].nhttp <= MAX_RETRIES)
    /\ [](\A r \in Callers :
            calls[r].pc = "returned" /\ calls[r].nhttp = MAX_RETRIES
            /\ calls[r].last = 429 /\ calls[r].res # "cancelled"
               => calls[r].res = "raised_502")
    /\ \A r \in Callers : InCall(r) ~> calls[r].pc = "returned"

\* Responses 503, 401 and 429 used up the three attempts of a call, which
\* left with the 502 error.
C39_Witness ==
    \E r \in Callers : /\ calls[r].pc = "returned" /\ calls[r].res = "raised_502"
                        /\ calls[r].nhttp = MAX_RETRIES /\ calls[r].last = 429
                        /\ calls[r].n429 = 1

\* Call r2 holds the lock call r wants, has been handed it, or queues for
\* it ahead of r.
Blocks(r2, r) ==
    /\ r2 # r /\ calls[r2].use_lock /\ calls[r2].user = calls[r].user
    /\ \/ InDo(r2)
       \/ /\ calls[r2].pc = "wait"
          /\ \/ r2 \in locks[calls[r].user].woken
             \/ \E a, b \in 1..Len(locks[calls[r].user].waiters) :
                   /\ a < b /\ locks[calls[r].user].waiters[a] = r2
                   /\ locks[calls[r].user].waiters[b] = r

\* C40: a user's lock is held only while a locked call of that user is
\* inside _do (every exit has released it); a call that waits for a lock
\* eventually holds it, unless its task is cancelled; and a call waits only
\* behind a call of its own user, or has been handed the lock.
C40_LockReleased ==
    /\ [](\A u \in Users :
            locks[u].locked => \E r \in Callers : InDo(r) /\ calls[r].user = u)
    /\ \A r \in Callers :
          calls[r].pc = "wait" ~> (InDo(r) \/ calls[r].res = "cancelled")
    /\ [](\A r \in Callers :
            calls[r].pc = "wait" =>
               \/ r \in locks[calls[r].user].woken
               \/ \E r2 \in Callers : Blocks(r2, r))

\* The task of the call that held the lock was cancelled, and the waiting
\* call of the same user has been handed the lock.
C40_Witness ==
    \E r, r2 \in Callers :
       /\ calls[r].pc = "wait" /\ r \in locks[calls[r].user].woken
       /\ calls[r2].pc = "returned" /\ calls[r2].res = "cancelled"
       /\ calls[r2].use_lock /\ calls[r2].user = calls[r].user

\* The call that held the lock exhausted its retries, and the waiting call
\* of the same user has been handed the lock.
C40_WitnessExhausted ==
    \E r, r2 \in Callers :
       /\ calls[r].pc = "wait" /\ r \in locks[calls[r].user].woken
       /\ calls[r2].pc = "returned" /\ calls[r2].res = "raised_502"
       /\ calls[r2].use_lock /\ calls[r2].user = calls[r].user

====
